---- MODULE Spec2Model ----
(***************************************************************************)
(* Model of the reaction-set reduction code of ModelSEEDpy's MSModelUtil   *)
(* (modelseedpy/core/msmodelutl.py): test_single_condition, the binary     *)
(* and linear expansion tests, reaction_expansion_test and test_solution.  *)
(*                                                                         *)
(* The live cobra model is the tuple of variables lb, ub, present,         *)
(* objective, medium; the MSModelUtil object adds test_objective, score,   *)
(* breaking_reaction and attributes.  The LP solver is an input: a         *)
(* function from the set of open candidate directions to an objective      *)
(* value, and a set of media on which every solve is infeasible.           *)
(***************************************************************************)
EXTENDS Integers, Sequences, FiniteSets, TLC

VARIABLES
    lb,                 \* reaction id -> lower bound of the live model
    ub,                 \* reaction id -> upper bound of the live model
    present,            \* ids of the reactions that are in the live model
    objective,          \* model.objective (the id of the objective reaction)
    medium,             \* KBaseMediaPkg.current_media and the exchange bounds it set
    test_objective,     \* MSModelUtil.test_objective: <<>> is None, <<v>> a number
    score,              \* MSModelUtil.score: <<>> is None, <<v>> a number or NaN
    breaking_reaction,  \* MSModelUtil.breaking_reaction: <<>> is None, <<r>> a reaction
    attributes,         \* MSModelUtil.attributes["gf_filter"]
    ext,                \* [rxn, dir] item -> the values appended to that list object
    oracle,             \* the LP: set of open candidate directions -> objective value
    infeasible,         \* the media on which the LP has no optimal solution
    call,               \* the call made last: its name and arguments
    ret,                \* what that call returned
    pre,                \* the live model as it was when that call was made
    ncalls,             \* number of calls made so far
    log,                \* history of the call: the steps it took, in order
    essential,          \* media -> the directions without which the objective is 0
    integrated_gapfillings, \* MSModelUtil.integrated_gapfillings
    cumulative_gapfilling,  \* MSGapfill.cumulative_gapfilling
    self_model,         \* MSGapfill.model: the model object it refers to
    self_mdlutl,        \* MSGapfill.mdlutl: the MSModelUtil object it refers to
    default_cumulative_solution \* the list object that is the default value of
                        \* cumulative_solution of integrate_gapfill_solution

vars == <<lb, ub, present, objective, medium, test_objective, score,
          breaking_reaction, attributes, ext, oracle, infeasible, call, ret,
          pre, ncalls, log, essential, integrated_gapfillings,
          cumulative_gapfilling, self_model, self_mdlutl,
          default_cumulative_solution>>

-----------------------------------------------------------------------------
(* Bounds of the model and constants of the program *)

\* objective values the LP can report are 0..MaxObj
MaxObj == 2
\* thresholds of conditions are 0..MaxThreshold
MaxThreshold == 2
\* calls made in one behaviour of the single-condition specification
MaxCalls == 2
\* what slim_optimize returns when the solve is not optimal (float nan)
NaN == -1000
\* the open bounds of a gapfilled reaction
OpenUpper == 100
OpenLower == -100
\* reliability scores of the candidates are 0..MaxScore
MaxScore == 1
\* conditions in a condition list
MaxConds == 2
\* (target, media, threshold) triples in a call of test_solution
MaxTriples == 2

None == <<>>
Some(v) == <<v>>

\* the reactions of the model; R3 is in the model of SpecMin only
Rxns == {"R1", "R2"}
Dirs == {">", "<"}
\* the candidate [reaction, direction] items, in the order of the input list;
\* the first three are on the reactions of Rxns
Cand == << <<"R1", ">">>, <<"R2", ">">>, <<"R2", "<">>, <<"R3", ">">> >>
CandSet == {Cand[i] : i \in 1..Len(Cand)}
Medias == {"M1", "M2"}
\* every medium a model can be on: none applied, or one of the media
MediaNames == {"none", "M1", "M2", "M3"}
\* no direction is essential on any medium
NoEssential == [md \in MediaNames |-> {}]
Objectives == {"bio1", "bio2"}

Range(s) == {s[i] : i \in 1..Len(s)}

-----------------------------------------------------------------------------
(* The live model as one record, threaded through the operators below *)

Live ==
    [lb |-> lb, ub |-> ub, present |-> present, objective |-> objective,
     medium |-> medium, test_objective |-> test_objective, score |-> score,
     breaking_reaction |-> breaking_reaction, attributes |-> attributes,
     ext |-> ext, log |-> log,
     integrated_gapfillings |-> integrated_gapfillings]

\* the bound of an item's direction: upper bound for ">", lower bound otherwise
DirBound(m, item) ==
    IF item[2] = ">" THEN m.ub[item[1]] ELSE m.lb[item[1]]

\* the bound of an item's direction is set; the reduction tests write 0 or a
\* bound read from the same reaction, on candidates whose lower bound is not
\* above 0 and whose upper bound is not below 0, where no setter refuses
SetDirBound(m, item, v) ==
    IF item[2] = ">"
    THEN [m EXCEPT !.ub[item[1]] = v]
    ELSE [m EXCEPT !.lb[item[1]] = v]

\* the candidate directions through which flux can pass
Active(m) ==
    {c \in CandSet : /\ c[1] \in m.present
                     /\ IF c[2] = ">" THEN m.ub[c[1]] > 0 ELSE m.lb[c[1]] < 0}

\* flux can pass through reaction c[1] in direction c[2]
IsOpen(m, c) ==
    /\ c[1] \in m.present
    /\ IF c[2] = ">" THEN m.ub[c[1]] > 0 ELSE m.lb[c[1]] < 0

\* model.slim_optimize(): the objective value, NaN when the solve is not optimal
\* the objective is 0 unless every direction essential on the medium is open
slim_optimize(m) ==
    IF m.medium \in infeasible THEN NaN
    ELSE IF \A c \in essential[m.medium] : IsOpen(m, c) THEN oracle[Active(m)]
    ELSE 0

\* model.solver.status after slim_optimize
solver_status(m) ==
    IF slim_optimize(m) = NaN THEN "infeasible" ELSE "optimal"

\* float arithmetic and comparison: NaN propagates and compares False
IsNaN(v) == v = NaN
Minus(a, b) == IF IsNaN(a) \/ IsNaN(b) THEN NaN ELSE a - b
Ge(a, b) == ~IsNaN(a) /\ ~IsNaN(b) /\ a >= b
Le(a, b) == ~IsNaN(a) /\ ~IsNaN(b) /\ a <= b
Lt(a, b) == ~IsNaN(a) /\ ~IsNaN(b) /\ a < b

\* Python truth value of test_objective: None and 0 are false
Truthy(o) == o # None /\ o[1] # 0

-----------------------------------------------------------------------------
(* Conditions *)

Condition(media, obj, ismax, thr, chg) ==
    [media |-> media, objective |-> obj, is_max_threshold |-> ismax,
     threshold |-> thr, change |-> chg]

\* KBaseMediaPkg.build_package(media)
build_package(m, media) == [m EXCEPT !.medium = media]

apply_test_condition(m, condition) ==
    build_package([m EXCEPT !.objective = condition.objective], condition.media)

\* the value compared with the threshold
TestValue(m, condition, new_objective) ==
    IF condition.change /\ Truthy(m.test_objective)
    THEN Minus(new_objective, m.test_objective[1])
    ELSE new_objective

\* variant: a value equal to the threshold does not fail a max threshold
FailsHigh_Strict(value, condition) ==
    (~IsNaN(value) /\ value > condition.threshold) /\ condition.is_max_threshold

FailsHigh(value, condition) ==
    Ge(value, condition.threshold) /\ condition.is_max_threshold

\* variant: a value equal to the threshold does not fail a min threshold
FailsLow_Strict(value, condition) ==
    Lt(value, condition.threshold) /\ ~condition.is_max_threshold

FailsLow(value, condition) ==
    Le(value, condition.threshold) /\ ~condition.is_max_threshold

\* variant: the solver status is not looked at
test_single_condition_NoStatus(m0, condition, apply_condition) ==
    LET m1 == IF apply_condition THEN apply_test_condition(m0, condition) ELSE m0
        new_objective == slim_optimize(m1)
        value == TestValue(m1, condition, new_objective)
        m2 == [m1 EXCEPT !.score = Some(value)]
    IN  IF FailsHigh(value, condition) THEN [m |-> m2, ok |-> FALSE]
        ELSE IF FailsLow(value, condition) THEN [m |-> m2, ok |-> FALSE]
        ELSE [m |-> [m2 EXCEPT !.test_objective = Some(new_objective)], ok |-> TRUE]

\* returns [m |-> the model afterwards, ok |-> the boolean returned]
test_single_condition(m0, condition, apply_condition) ==
    LET m1 == IF apply_condition THEN apply_test_condition(m0, condition) ELSE m0
        new_objective == slim_optimize(m1)
        value == TestValue(m1, condition, new_objective)
        m2 == [m1 EXCEPT !.score = Some(value)]
    IN  IF solver_status(m1) # "optimal" THEN [m |-> m2, ok |-> FALSE]
        ELSE IF FailsHigh(value, condition) THEN [m |-> m2, ok |-> FALSE]
        ELSE IF FailsLow(value, condition) THEN [m |-> m2, ok |-> FALSE]
        ELSE [m |-> [m2 EXCEPT !.test_objective = Some(new_objective)], ok |-> TRUE]

\* the loop of test_condition_list from condition number i on: the
\* conditions are applied and tested in order, the first that fails ends the
\* call; returns [m, ok]
RECURSIVE ConditionTests(_, _, _)
ConditionTests(m, condition_list, i) ==
    IF i > Len(condition_list) THEN [m |-> m, ok |-> TRUE]
    ELSE IF ~test_single_condition(m, condition_list[i], TRUE).ok
    THEN [m |-> test_single_condition(m, condition_list[i], TRUE).m,
          ok |-> FALSE]
    ELSE ConditionTests(test_single_condition(m, condition_list[i], TRUE).m,
                        condition_list, i + 1)

\* returns [m |-> the model afterwards, ok |-> the boolean returned]
test_condition_list(m0, condition_list) == ConditionTests(m0, condition_list, 1)

-----------------------------------------------------------------------------
(* The Reaction Set Reducer *)

\* the item list object after list.append(v)
Append_item(m, item, v) == [m EXCEPT !.ext[item] = Append(@, v)]

\* item[2] of the Python list [rxn, dir, ...]: the first value appended
Item2(m, item) == m.ext[item][1]

\* zeroes the items in turn and records the bound each had when it was reached
RECURSIVE ZeroAll(_, _, _, _)
ZeroAll(m, reaction_list, i, original_bound) ==
    IF i > Len(reaction_list) THEN [m |-> m, original_bound |-> original_bound]
    ELSE ZeroAll(SetDirBound(m, reaction_list[i], 0), reaction_list, i + 1,
                 Append(original_bound, DirBound(m, reaction_list[i])))

\* sets the bound of items i..Len(reaction_list) back to the recorded values
RECURSIVE RestoreFrom(_, _, _, _)
RestoreFrom(m, reaction_list, i, original_bound) ==
    IF i > Len(reaction_list) THEN m
    ELSE RestoreFrom(SetDirBound(m, reaction_list[i], original_bound[i]),
                     reaction_list, i + 1, original_bound)

check_if_solution_exists(m0, reaction_list, condition) ==
    LET z == ZeroAll(m0, reaction_list, 1, <<>>)
        t == test_single_condition(z.m, condition, TRUE)
    IN  [m |-> RestoreFrom(t.m, reaction_list, 1, z.original_bound), ok |-> t.ok]

\* the positive growth conditions in order, stopping at the first that fails
RECURSIVE PositiveGrowthTests(_, _, _)
PositiveGrowthTests(m, positive_growth, i) ==
    IF i > Len(positive_growth) THEN [m |-> m, ok |-> TRUE]
    ELSE LET t == test_single_condition(m, positive_growth[i], TRUE)
         IN  IF t.ok THEN PositiveGrowthTests(t.m, positive_growth, i + 1)
             ELSE [m |-> t.m, ok |-> FALSE]

\* the single-reaction case of binary_expansion_test, after the failed test
BaseCase(m0, item, condition, positive_growth) ==
    LET m1 == SetDirBound(Append_item(m0, item, DirBound(m0, item)), item, 0)
        p  == IF Len(positive_growth) > 0
              THEN PositiveGrowthTests(m1, positive_growth, 1)
              ELSE [m |-> m1, ok |-> TRUE]
        m2 == IF Len(positive_growth) > 0
              THEN apply_test_condition(p.m, condition) ELSE p.m
    IN  IF p.ok
        THEN [m |-> Append_item(m2, item, m2.score[1]),
              filtered |-> <<item>>, err |-> ""]
        ELSE [m |-> [SetDirBound(m2, item, Item2(m2, item))
                        EXCEPT !.breaking_reaction = Some(item[1]),
                               !.log = Append(@, <<"breaking", item>>)],
              filtered |-> <<>>, err |-> ""]

\* variant: the bounds of the whole list are recorded, nothing is zeroed
RECURSIVE ZeroSecondHalf_NoKnockout(_, _, _, _, _)
ZeroSecondHalf_NoKnockout(m, reaction_list, midway_point, i, original_bound) ==
    IF i > Len(reaction_list) THEN [m |-> m, original_bound |-> original_bound]
    ELSE ZeroSecondHalf_NoKnockout(
            m, reaction_list, midway_point, i + 1,
            Append(original_bound, DirBound(m, reaction_list[i])))

\* the bounds of the whole list are recorded, the second half is zeroed
RECURSIVE ZeroSecondHalf(_, _, _, _, _)
ZeroSecondHalf(m, reaction_list, midway_point, i, original_bound) ==
    IF i > Len(reaction_list) THEN [m |-> m, original_bound |-> original_bound]
    ELSE ZeroSecondHalf(
            IF i <= midway_point THEN m ELSE SetDirBound(m, reaction_list[i], 0),
            reaction_list, midway_point, i + 1,
            Append(original_bound, DirBound(m, reaction_list[i])))

\* returns [m, filtered, err]; err is "" or the exception raised
RECURSIVE binary_expansion_test(_, _, _, _)
binary_expansion_test(m0, reaction_list, condition, positive_growth) ==
    LET t == test_single_condition(m0, condition, FALSE)
    IN  IF t.ok THEN [m |-> t.m, filtered |-> <<>>, err |-> ""]
        ELSE IF Len(reaction_list) = 1
        THEN BaseCase(t.m, reaction_list[1], condition, positive_growth)
        ELSE IF Len(reaction_list) = 0
        \* both halves are empty again: the recursion never ends
        THEN [m |-> t.m, filtered |-> <<>>, err |-> "RecursionError"]
        ELSE
        LET midway_point == Len(reaction_list) \div 2
            z == ZeroSecondHalf(t.m, reaction_list, midway_point, 1, <<>>)
            first == binary_expansion_test(
                        z.m, SubSeq(reaction_list, 1, midway_point),
                        condition, positive_growth)
        IN  IF first.err # "" \/ first.m.breaking_reaction # None THEN first
            ELSE
            LET m3 == RestoreFrom(first.m, reaction_list, midway_point + 1,
                                  z.original_bound)
                second == binary_expansion_test(
                            m3, SubSeq(reaction_list, midway_point + 1,
                                       Len(reaction_list)),
                            condition, positive_growth)
            IN  [m |-> second.m, filtered |-> first.filtered \o second.filtered,
                 err |-> second.err]

\* linear_expansion_test passes positive_growth to test_single_condition, which
\* has no such parameter: the call raises before anything is tested
linear_expansion_test(m0, reaction_list, condition, positive_growth) ==
    [m |-> m0, filtered |-> <<>>, err |-> "TypeError"]

\* sorted(reaction_list, key=score): stable, ascending
RECURSIVE SortedByScore(_, _, _)
SortedByScore(reaction_list, scores, k) ==
    IF k > MaxScore THEN <<>>
    ELSE SelectSeq(reaction_list, LAMBDA x : scores[x] = k)
            \o SortedByScore(reaction_list, scores, k + 1)

\* for item in new_filtered: if item not in filtered_list: filtered_list.append(item)
RECURSIVE AddNew(_, _, _)
AddNew(filtered_list, new_filtered, i) ==
    IF i > Len(new_filtered) THEN filtered_list
    ELSE AddNew(IF new_filtered[i] \in Range(filtered_list) THEN filtered_list
                ELSE Append(filtered_list, new_filtered[i]),
                new_filtered, i + 1)

\* del reaction_list[i] for the first i whose reaction is the breaking reaction
RECURSIVE RemoveBreaking(_, _, _)
RemoveBreaking(reaction_list, rxn, i) ==
    IF i > Len(reaction_list) THEN reaction_list
    ELSE IF reaction_list[i][1] = rxn
    THEN SubSeq(reaction_list, 1, i - 1)
            \o SubSeq(reaction_list, i + 1, Len(reaction_list))
    ELSE RemoveBreaking(reaction_list, rxn, i + 1)

\* what leaving "with currmodel:" undoes: bounds, objective and medium go back
\* to what they were when the block was entered
ExitWith(m, entered) ==
    [m EXCEPT !.lb = entered.lb, !.ub = entered.ub,
              !.objective = entered.objective, !.medium = entered.medium]

\* the "while not done" loop of reaction_expansion_test
\* log records <<"pass", list, condition>> when a pass of the loop starts on list,
\* <<"breaking", item>> when the pass finds item to be the breaking reaction
\* and <<"exists", ok>> for the check_if_solution_exists that follows
\* status: "done", "none" (return None) or the exception raised
\* BinaryLoopRetry: the breaking reaction has been taken off the list (rl) and
\* check_if_solution_exists has run again (c)
\* BinaryLoopStep: binary_expansion_test has run (b)
RECURSIVE BinaryLoop(_, _, _, _, _)
RECURSIVE BinaryLoopStep(_, _, _, _, _)
RECURSIVE BinaryLoopRetry(_, _, _, _, _, _)
BinaryLoopRetry(c, rl, condition, positive_growth, fl, new_filtered) ==
    IF ~c.ok
    THEN [m |-> [c.m EXCEPT !.log = Append(@, <<"exists", FALSE>>)],
          reaction_list |-> rl, filtered_list |-> fl,
          new_filtered |-> new_filtered, status |-> "none"]
    ELSE BinaryLoop([c.m EXCEPT !.breaking_reaction = None,
                                !.log = Append(@, <<"exists", TRUE>>)],
                    rl, condition, positive_growth, fl)

BinaryLoopStep(b, reaction_list, condition, positive_growth, fl) ==
    IF b.err # ""
    THEN [m |-> b.m, reaction_list |-> reaction_list, filtered_list |-> fl,
          new_filtered |-> b.filtered, status |-> b.err]
    ELSE IF b.m.breaking_reaction = None
    THEN [m |-> b.m, reaction_list |-> reaction_list, filtered_list |-> fl,
          new_filtered |-> b.filtered, status |-> "done"]
    ELSE BinaryLoopRetry(
            check_if_solution_exists(
                b.m, RemoveBreaking(reaction_list, b.m.breaking_reaction[1], 1),
                condition),
            RemoveBreaking(reaction_list, b.m.breaking_reaction[1], 1),
            condition, positive_growth, fl, b.filtered)

BinaryLoopAdd(b, reaction_list, condition, positive_growth, filtered_list) ==
    BinaryLoopStep(b, reaction_list, condition, positive_growth,
                   AddNew(filtered_list, b.filtered, 1))

BinaryLoop(m0, reaction_list, condition, positive_growth, filtered_list) ==
    BinaryLoopAdd(
        binary_expansion_test(
            [m0 EXCEPT !.log = Append(@, <<"pass", reaction_list, condition>>)],
            reaction_list, condition, positive_growth),
        reaction_list, condition, positive_growth, filtered_list)

\* for item in new_filtered: the bound of its direction is set to 0
RECURSIVE ZeroFiltered(_, _, _)
ZeroFiltered(m, new_filtered, i) ==
    IF i > Len(new_filtered) THEN m
    ELSE ZeroFiltered(SetDirBound(m, new_filtered[i], 0), new_filtered, i + 1)

\* gf_filter[media][objective][threshold][rxn][dir] = item[2], unless already set
AttKey(condition, item) ==
    <<condition.media, condition.objective, condition.threshold, item[1], item[2]>>

RECURSIVE SaveFiltered(_, _, _, _)
SaveFiltered(m, condition, new_filtered, i) ==
    IF i > Len(new_filtered) THEN m
    ELSE LET key == AttKey(condition, new_filtered[i])
             m1 == IF \E a \in m.attributes : a[1] = key THEN m
                   ELSE [m EXCEPT !.attributes =
                            @ \cup {<<key, Item2(m, new_filtered[i])>>}]
         IN  SaveFiltered(m1, condition, new_filtered, i + 1)

\* the search of one condition, on the model with the condition applied
\* returns [m, reaction_list, filtered_list, new_filtered, status]
LinearResult(l, reaction_list, filtered_list) ==
    [m |-> l.m, reaction_list |-> reaction_list,
     filtered_list |-> AddNew(filtered_list, l.filtered, 1),
     new_filtered |-> l.filtered,
     status |-> IF l.err = "" THEN "done" ELSE l.err]

Search(m1, reaction_list, condition, binary_search, positive_growth, filtered_list) ==
    IF binary_search
    THEN BinaryLoop(m1, reaction_list, condition, positive_growth, filtered_list)
    ELSE LinearResult(
            linear_expansion_test(m1, reaction_list, condition, positive_growth),
            reaction_list, filtered_list)

\* the "for condition in condition_list" loop, from condition number i
\* returns [m, ret]: ret.kind is "list", "None" or "raise"
\* ConditionChecked: check_if_solution_exists has run (c)
\* ConditionSearched: the search has run (r) and the with-block is left (left)
RECURSIVE ConditionLoop(_, _, _, _, _, _, _)
RECURSIVE ConditionChecked(_, _, _, _, _, _, _)
RECURSIVE ConditionSearched(_, _, _, _, _, _)
ConditionSearched(r, left, condition_list, i, binary_search, positive_growth) ==
    IF r.status = "none"
    THEN [m |-> left, ret |-> [kind |-> "None", value |-> <<>>]]
    ELSE IF r.status # "done"
    THEN [m |-> left, ret |-> [kind |-> "raise", value |-> <<r.status>>]]
    ELSE ConditionLoop(
            SaveFiltered(ZeroFiltered(left, r.new_filtered, 1),
                         condition_list[i], r.new_filtered, 1),
            r.reaction_list, condition_list, i + 1,
            binary_search, positive_growth, r.filtered_list)

ConditionLeft(r, entered, condition_list, i, binary_search, positive_growth) ==
    ConditionSearched(r, ExitWith(r.m, entered), condition_list, i,
                      binary_search, positive_growth)

ConditionChecked(c, reaction_list, condition_list, i, binary_search, positive_growth, filtered_list) ==
    IF ~c.ok THEN [m |-> c.m, ret |-> [kind |-> "None", value |-> <<>>]]
    ELSE ConditionLeft(
            Search(apply_test_condition(c.m, condition_list[i]), reaction_list,
                   condition_list[i], binary_search, positive_growth,
                   filtered_list),
            c.m, condition_list, i, binary_search, positive_growth)

ConditionLoop(m0, reaction_list, condition_list, i, binary_search, positive_growth, filtered_list) ==
    IF i > Len(condition_list)
    THEN [m |-> m0, ret |-> [kind |-> "list", value |-> filtered_list]]
    ELSE ConditionChecked(
            check_if_solution_exists(m0, reaction_list, condition_list[i]),
            reaction_list, condition_list, i, binary_search, positive_growth,
            filtered_list)

reaction_expansion_test(m0, reaction_list, condition_list, binary_search, positive_growth, scores) ==
    ConditionLoop([m0 EXCEPT !.breaking_reaction = None],
                  SortedByScore(reaction_list, scores, 0), condition_list, 1,
                  binary_search, positive_growth, <<>>)

-----------------------------------------------------------------------------
(* The Need Tester *)

find_item_in_solution(input_list, input, ignore_dir) ==
    \E k \in 1..Len(input_list) :
        \/ (input[1] = input_list[k][1] /\ input[2] = input_list[k][2])
        \/ (ignore_dir /\ input[1] = input_list[k][1])

\* the loop that computes the initial objectives: it leaves the last media and
\* the last target on the model
RECURSIVE InitialObjectives(_, _, _, _)
InitialObjectives(m, targets, medias, i) ==
    IF i > Len(targets) THEN m
    ELSE InitialObjectives(
            [build_package(m, medias[i]) EXCEPT !.objective = targets[i],
                                                !.log = Append(@, <<"set", i>>)],
            targets, medias, i + 1)

\* knocking out item: returns the model, the bound captured as original_bound
\* and the other bound when it was captured (None otherwise)
Knockout(m, item, other_original_bound) ==
    IF item[2] = ">"
    THEN LET forced == m.lb[item[1]] > 0
         IN  [m |-> [m EXCEPT !.lb[item[1]] = IF forced THEN 0 ELSE @,
                              !.ub[item[1]] = 0],
              original_bound |-> m.ub[item[1]],
              other_original_bound |-> IF forced THEN Some(m.lb[item[1]])
                                       ELSE other_original_bound]
    ELSE LET forced == m.ub[item[1]] < 0
         IN  [m |-> [m EXCEPT !.ub[item[1]] = IF forced THEN 0 ELSE @,
                              !.lb[item[1]] = 0],
              original_bound |-> m.lb[item[1]],
              other_original_bound |-> IF forced THEN Some(m.ub[item[1]])
                                       ELSE other_original_bound]

\* a knocked out reaction gets the captured bounds back, the bound of the
\* direction first; the bound setters of a reaction raise ValueError for a
\* lower bound above the upper bound and leave the bound as it was
\* returns [m, err]; err is "" or the exception raised
RestoreKnockout(m, item, original_bound, other_original_bound) ==
    IF item[2] = ">"
    THEN IF m.lb[item[1]] > original_bound
         THEN [m |-> m, err |-> "ValueError"]
         ELSE IF other_original_bound = None
         THEN [m |-> [m EXCEPT !.ub[item[1]] = original_bound], err |-> ""]
         ELSE IF other_original_bound[1] > original_bound
         THEN [m |-> [m EXCEPT !.ub[item[1]] = original_bound],
               err |-> "ValueError"]
         ELSE [m |-> [m EXCEPT !.ub[item[1]] = original_bound,
                               !.lb[item[1]] = other_original_bound[1]],
               err |-> ""]
    ELSE IF original_bound > m.ub[item[1]]
         THEN [m |-> m, err |-> "ValueError"]
         ELSE IF other_original_bound = None
         THEN [m |-> [m EXCEPT !.lb[item[1]] = original_bound], err |-> ""]
         ELSE IF original_bound > other_original_bound[1]
         THEN [m |-> [m EXCEPT !.lb[item[1]] = original_bound],
               err |-> "ValueError"]
         ELSE [m |-> [m EXCEPT !.lb[item[1]] = original_bound,
                               !.ub[item[1]] = other_original_bound[1]],
               err |-> ""]

\* what the solve of item for triple i is made on
SolveEvent(m, item, i) ==
    <<"solve", item, i, [medium |-> m.medium, objective |-> m.objective,
                         bound |-> DirBound(m, item)]>>

\* variant: the reaction is knocked out before the medium and the objective of
\* the triple are set
RECURSIVE TripleLoop_KnockoutFirst(_, _, _, _, _, _)
TripleLoop_KnockoutFirst(k, item, targets, medias, thresholds, i) ==
    IF i > Len(targets) THEN k
    ELSE
    LET ko == Knockout([k.m EXCEPT !.log = Append(@, <<"knockout", item, i>>)],
                       item, k.other_original_bound)
        m1 == IF Len(targets) > 1
              THEN [build_package(ko.m, medias[i])
                        EXCEPT !.objective = targets[i],
                               !.log = Append(@, <<"set", i>>)]
              ELSE ko.m
        obj == slim_optimize(m1)
    IN  TripleLoop_KnockoutFirst(
            [m |-> [m1 EXCEPT !.log = Append(@, SolveEvent(m1, item, i))],
             original_bound |-> ko.original_bound,
             other_original_bound |-> ko.other_original_bound,
             needed |-> k.needed \/ Lt(obj, thresholds[i])],
            item, targets, medias, thresholds, i + 1)

\* the loop over the (target, media, threshold) triples for one item
\* k: [m, original_bound, other_original_bound, needed] so far
\* log records <<"set", i>> when the medium and the objective of triple i are
\* set, <<"knockout", item, i>> when item is knocked out for triple i and
\* <<"solve", item, i, ...>> for the solve compared with the threshold of i
RECURSIVE TripleLoop(_, _, _, _, _, _)
TripleLoop(k, item, targets, medias, thresholds, i) ==
    IF i > Len(targets) THEN k
    ELSE
    LET m1 == IF Len(targets) > 1
              THEN [build_package(k.m, medias[i])
                        EXCEPT !.objective = targets[i],
                               !.log = Append(@, <<"set", i>>)]
              ELSE k.m
        ko == Knockout([m1 EXCEPT !.log = Append(@, <<"knockout", item, i>>)],
                       item, k.other_original_bound)
        obj == slim_optimize(ko.m)
    IN  TripleLoop([m |-> [ko.m EXCEPT !.log =
                                Append(@, SolveEvent(ko.m, item, i))],
                    original_bound |-> ko.original_bound,
                    other_original_bound |-> ko.other_original_bound,
                    needed |-> k.needed \/ Lt(obj, thresholds[i])],
                   item, targets, medias, thresholds, i + 1)

\* variant: an unneeded reaction gets its bounds back at once, as a needed
\* one does, so every reaction is tested with all the others open
RECURSIVE SolutionLoop_RestoreAtOnce(_, _, _, _, _, _, _)
SolutionLoop_RestoreAtOnce(m, solution, targets, medias, thresholds, j, unneeded) ==
    IF j > Len(solution) THEN [m |-> m, unneeded |-> unneeded, err |-> ""]
    \* model.reactions.get_by_id raises KeyError for a reaction not in the model
    ELSE IF solution[j][1] \notin m.present
    THEN [m |-> m, unneeded |-> unneeded, err |-> "KeyError"]
    ELSE
    LET item == solution[j]
        k == TripleLoop([m |-> m, original_bound |-> 0,
                         other_original_bound |-> None, needed |-> FALSE],
                        item, targets, medias, thresholds, 1)
        r == RestoreKnockout(k.m, item, k.original_bound,
                             k.other_original_bound)
    IN  IF r.err # ""
        THEN [m |-> r.m, unneeded |-> unneeded, err |-> r.err]
        ELSE SolutionLoop_RestoreAtOnce(
                r.m, solution, targets, medias, thresholds, j + 1,
                IF ~k.needed
                THEN Append(unneeded, <<item[1], item[2], item[3],
                                        k.original_bound,
                                        k.other_original_bound>>)
                ELSE unneeded)

\* the loop over the items of the solution; returns [m, unneeded, err]: it
\* ends where the restore of a needed reaction raises
RECURSIVE NeededRestored(_, _, _, _, _, _, _)
RECURSIVE SolutionLoop(_, _, _, _, _, _, _)
SolutionLoop(m, solution, targets, medias, thresholds, j, unneeded) ==
    IF j > Len(solution) THEN [m |-> m, unneeded |-> unneeded, err |-> ""]
    \* model.reactions.get_by_id raises KeyError for a reaction not in the model
    ELSE IF solution[j][1] \notin m.present
    THEN [m |-> m, unneeded |-> unneeded, err |-> "KeyError"]
    ELSE
    LET item == solution[j]
        k == TripleLoop([m |-> m, original_bound |-> 0,
                         other_original_bound |-> None, needed |-> FALSE],
                        item, targets, medias, thresholds, 1)
    IN  IF ~k.needed
        THEN SolutionLoop(k.m, solution, targets, medias, thresholds, j + 1,
                          Append(unneeded, <<item[1], item[2], item[3],
                                             k.original_bound,
                                             k.other_original_bound>>))
        ELSE NeededRestored(solution, targets, medias, thresholds, j, unneeded,
                            RestoreKnockout(k.m, item, k.original_bound,
                                            k.other_original_bound))

\* the needed reaction of item j has been restored, with outcome r
NeededRestored(solution, targets, medias, thresholds, j, unneeded, r) ==
    IF r.err # "" THEN [m |-> r.m, unneeded |-> unneeded, err |-> r.err]
    ELSE SolutionLoop(r.m, solution, targets, medias, thresholds, j + 1,
                      unneeded)

\* remove_unneeded_reactions=False: the unneeded reactions get their bounds
\* back; returns [m, removed_rxns, err]
RECURSIVE RestoreUnneeded(_, _, _)
RestoreUnneeded(m, unneeded, j) ==
    IF j > Len(unneeded) THEN [m |-> m, removed_rxns |-> {}, err |-> ""]
    ELSE
    LET r == RestoreKnockout(m, unneeded[j], unneeded[j][4], unneeded[j][5])
    IN  IF r.err # "" THEN [m |-> r.m, removed_rxns |-> {}, err |-> r.err]
        ELSE RestoreUnneeded(r.m, unneeded, j + 1)

\* remove_unneeded_reactions=True: returns [m, removed_rxns, err]
RECURSIVE RemoveUnneeded(_, _, _, _, _)
RemoveUnneeded(m, unneeded, do_not_remove_list, j, removed_rxns) ==
    IF j > Len(unneeded)
    THEN [m |-> m, removed_rxns |-> removed_rxns, err |-> ""]
    ELSE
    LET item == unneeded[j]
        r == RestoreKnockout(m, item, item[4], item[5])
    IN  IF find_item_in_solution(do_not_remove_list, item, FALSE)
        THEN IF r.err # ""
             THEN [m |-> r.m, removed_rxns |-> removed_rxns, err |-> r.err]
             ELSE RemoveUnneeded(r.m, unneeded, do_not_remove_list, j + 1,
                                 removed_rxns)
        ELSE IF /\ m.lb[item[1]] = 0
                /\ m.ub[item[1]] = 0
                /\ ~find_item_in_solution(do_not_remove_list, item, TRUE)
        THEN RemoveUnneeded(m, unneeded, do_not_remove_list, j + 1,
                            removed_rxns \cup {item[1]})
        ELSE RemoveUnneeded(m, unneeded, do_not_remove_list, j + 1, removed_rxns)

\* the end of test_solution: u is what the loop over the unneeded reactions
\* left, [m, removed_rxns, err]; the reactions of removed_rxns are removed,
\* then the objective and, if one was applied, the medium of the call are set
UnneededDone(current_objective, current_media, unneeded, u) ==
    IF u.err # "" THEN [m |-> u.m, unneeded |-> unneeded, err |-> u.err]
    ELSE IF current_media # "none"
    THEN [m |-> build_package([u.m EXCEPT !.present = @ \ u.removed_rxns,
                                          !.objective = current_objective],
                              current_media),
          unneeded |-> unneeded, err |-> ""]
    ELSE [m |-> [u.m EXCEPT !.present = @ \ u.removed_rxns,
                            !.objective = current_objective],
          unneeded |-> unneeded, err |-> ""]

\* s: what the loop over the items of the solution left, [m, unneeded, err]
SolutionTested(current_objective, current_media, s, remove_unneeded_reactions, do_not_remove_list) ==
    IF s.err # "" THEN s
    ELSE UnneededDone(current_objective, current_media, s.unneeded,
                      IF ~remove_unneeded_reactions
                      THEN RestoreUnneeded(s.m, s.unneeded, 1)
                      ELSE RemoveUnneeded(s.m, s.unneeded, do_not_remove_list,
                                          1, {}))

\* returns [m, unneeded, err]; when a bound setter raises (err is not "") the
\* model is left as it was at that point and nothing is returned
test_solution(m0, solution, targets, medias, thresholds, remove_unneeded_reactions, do_not_remove_list) ==
    SolutionTested(m0.objective, m0.medium,
                   SolutionLoop(InitialObjectives(m0, targets, medias, 1),
                                solution, targets, medias, thresholds, 1, <<>>),
                   remove_unneeded_reactions, do_not_remove_list)

-----------------------------------------------------------------------------
(* State after construction of the model and of MSModelUtil *)

InitBounds ==
    /\ lb = [r \in Rxns |-> IF r = "R1" THEN 0 ELSE OpenLower]
    /\ ub = [r \in Rxns |-> OpenUpper]
    /\ present = Rxns

InitUtil ==
    /\ test_objective = None
    /\ score = None
    /\ breaking_reaction = None
    /\ attributes = {}
    /\ ext = [c \in CandSet |-> <<>>]
    /\ call = [name |-> "none"]
    /\ ret = None
    /\ pre = None
    /\ ncalls = 0
    /\ log = <<>>
    /\ integrated_gapfillings = <<>>
    /\ cumulative_gapfilling = <<>>

\* State after construction of MSGapfill on the model: it refers to the model
\* and to the MSModelUtil of the model; the default list of
\* integrate_gapfill_solution is empty when the module is loaded
InitGapfill ==
    /\ self_model = "model"
    /\ self_mdlutl = "mdlutl"
    /\ default_cumulative_solution = <<>>

SetLive(m) ==
    /\ lb' = m.lb
    /\ ub' = m.ub
    /\ present' = m.present
    /\ objective' = m.objective
    /\ medium' = m.medium
    /\ test_objective' = m.test_objective
    /\ score' = m.score
    /\ breaking_reaction' = m.breaking_reaction
    /\ attributes' = m.attributes
    /\ ext' = m.ext
    /\ log' = m.log
    /\ integrated_gapfillings' = m.integrated_gapfillings

Vals == 0..MaxObj
Thresholds == 0..MaxThreshold
Conditions ==
    {Condition(md, "bio1", mx, t, ch) :
        md \in Medias, mx \in BOOLEAN, t \in Thresholds, ch \in BOOLEAN}

-----------------------------------------------------------------------------
(* Specification of repeated calls of test_single_condition and            *)
(* test_condition_list on one model: the LP reports one value whatever the *)
(* bounds, each call draws its condition or its list of conditions.        *)

InitTSC ==
    /\ InitBounds
    /\ InitUtil
    /\ InitGapfill
    /\ objective = "orig"
    /\ medium \in {"none", "M1"}
    /\ \E v \in Vals : oracle = [S \in SUBSET CandSet |-> v]
    /\ infeasible \in SUBSET Medias
    /\ essential = NoEssential

CallTestSingleCondition ==
    /\ ncalls < MaxCalls
    /\ \E condition \in Conditions, apply_condition \in BOOLEAN :
          LET r == test_single_condition(Live, condition, apply_condition)
              m1 == IF apply_condition
                    THEN apply_test_condition(Live, condition) ELSE Live
          IN  /\ SetLive(r.m)
              /\ call' = [name |-> "test_single_condition",
                          condition |-> condition,
                          apply_condition |-> apply_condition,
                          status |-> solver_status(m1),
                          new_objective |-> slim_optimize(m1)]
              /\ ret' = Some(r.ok)
              /\ pre' = Some(Live)
    /\ ncalls' = ncalls + 1
    /\ UNCHANGED <<oracle, infeasible, essential, cumulative_gapfilling,
                   self_model, self_mdlutl, default_cumulative_solution>>

\* condition number i of a condition list is on media number i
MediaOf(i) == IF i = 1 THEN "M1" ELSE "M2"

\* the condition lists given to test_condition_list: up to MaxConds
\* conditions, number i on media number i
TestedConditionLists ==
    UNION {{cl \in [1..n -> Conditions] :
               \A i \in 1..n : cl[i].media = MediaOf(i)} : n \in 0..MaxConds}

CallTestConditionList ==
    /\ ncalls < MaxCalls
    /\ \E condition_list \in TestedConditionLists :
          /\ SetLive(test_condition_list(Live, condition_list).m)
          /\ call' = [name |-> "test_condition_list",
                      condition_list |-> condition_list]
          /\ ret' = Some(test_condition_list(Live, condition_list).ok)
          /\ pre' = Some(Live)
    /\ ncalls' = ncalls + 1
    /\ UNCHANGED <<oracle, infeasible, essential, cumulative_gapfilling,
                   self_model, self_mdlutl, default_cumulative_solution>>

NextTSC == CallTestSingleCondition \/ CallTestConditionList

SpecTSC == InitTSC /\ [][NextTSC]_vars

-----------------------------------------------------------------------------
(* Specifications of the Reducer, on a freshly built model: one call of    *)
(* reaction_expansion_test (Spec), one direct call of                      *)
(* binary_expansion_test (SpecBET).                                        *)

\* the LP maximises (apply_test_condition always sets the direction "max"),
\* so opening a bound never lowers the objective value it reports
Monotone(f) ==
    \A S \in DOMAIN f : \A T \in DOMAIN f : S \subseteq T => f[S] <= f[T]

\* the monotone objectives of a model that has R1 and R2: R3 is not in the
\* model, no flux passes through it and the objective does not depend on it
Oracles ==
    {[S \in SUBSET CandSet |-> f[S \ {Cand[4]}]] :
        f \in {g \in [SUBSET (CandSet \ {Cand[4]}) -> Vals] : Monotone(g)}}

\* the monotone objectives of a model that has R1, R2 and R3: one of Oracles
\* while R3 is closed, one that is nowhere lower while R3 is open
OraclesMin ==
    {[S \in SUBSET CandSet |-> IF Cand[4] \in S THEN q[2][S] ELSE q[1][S]] :
        q \in {p \in Oracles \X Oracles : \A S \in SUBSET CandSet : p[1][S] <= p[2][S]}}


ReducerConditions(md) ==
    {Condition(md, "bio1", mx, t, ch) :
        mx \in BOOLEAN, t \in 1..MaxThreshold, ch \in BOOLEAN}

\* lists of up to MaxConds conditions; change mode only in one-condition lists
ConditionLists ==
    UNION {{cl \in [1..n -> UNION {ReducerConditions(md) : md \in Medias}] :
               \A i \in 1..n : /\ cl[i].media = MediaOf(i)
                               /\ (cl[i].change => n = 1)} : n \in 1..MaxConds}

\* positive_growth: no condition, or one condition of either kind
PositiveGrowthLists ==
    {<<>>} \cup {<<Condition("M1", "bio1", FALSE, t, FALSE)>> : t \in 0..1}
        \cup {<<Condition("M1", "bio1", TRUE, t, FALSE)>> : t \in 1..MaxThreshold}

ReactionLists == {SubSeq(Cand, 1, 3), SubSeq(Cand, 1, 2), <<>>}

ScoreChoices ==
    {[c \in CandSet |-> 0], [c \in CandSet |-> IF c = Cand[1] THEN MaxScore ELSE 0]}

Init ==
    /\ InitBounds
    /\ InitUtil
    /\ InitGapfill
    /\ objective = "orig"
    /\ medium = "none"
    /\ oracle \in Oracles
    /\ infeasible \in SUBSET Medias
    /\ essential = NoEssential

CallReactionExpansionTest ==
    /\ call.name = "none"
    /\ \E reaction_list \in ReactionLists, condition_list \in ConditionLists,
          binary_search \in BOOLEAN, positive_growth \in PositiveGrowthLists,
          scores \in ScoreChoices :
          LET r == reaction_expansion_test(Live, reaction_list, condition_list,
                                           binary_search, positive_growth, scores)
          IN  /\ SetLive(r.m)
              /\ call' = [name |-> "reaction_expansion_test",
                          reaction_list |-> reaction_list,
                          condition_list |-> condition_list,
                          binary_search |-> binary_search,
                          positive_growth |-> positive_growth,
                          scores |-> scores]
              /\ ret' = r.ret
              /\ pre' = Some(Live)
    /\ ncalls' = ncalls + 1
    /\ UNCHANGED <<oracle, infeasible, essential, cumulative_gapfilling,
                   self_model, self_mdlutl, default_cumulative_solution>>

\* binary_expansion_test called directly, on the model as it is
CallBinaryExpansionTest ==
    /\ call.name = "none"
    /\ \E reaction_list \in ReactionLists \ {<<>>},
          condition \in {c \in ReducerConditions("M1") : ~c.change} :
          LET r == binary_expansion_test(Live, reaction_list, condition, <<>>)
          IN  /\ SetLive(r.m)
              /\ call' = [name |-> "binary_expansion_test",
                          reaction_list |-> reaction_list,
                          condition |-> condition]
              /\ ret' = [kind |-> IF r.err = "" THEN "list" ELSE "raise",
                         value |-> r.filtered]
              /\ pre' = Some(Live)
    /\ ncalls' = ncalls + 1
    /\ UNCHANGED <<oracle, infeasible, essential, cumulative_gapfilling,
                   self_model, self_mdlutl, default_cumulative_solution>>

Next == CallReactionExpansionTest

Spec == Init /\ [][Next]_vars

NextBET == CallBinaryExpansionTest

SpecBET == Init /\ [][NextBET]_vars

-----------------------------------------------------------------------------
(* Specification of the Reducer on four candidates (SpecMin): one call of  *)
(* reaction_expansion_test with binary search on a model that has R1, R2   *)
(* and R3, every solve optimal, for one condition (not in change mode)     *)
(* with every positive growth list, or two max-threshold conditions        *)
(* without positive growth conditions.  Four candidates                    *)
(* are what a pass needs to filter a reaction, find a breaking reaction    *)
(* after it and filter another reaction in the pass that follows.          *)

InitMin ==
    /\ lb = [r \in Rxns \cup {"R3"} |-> IF r = "R2" THEN OpenLower ELSE 0]
    /\ ub = [r \in Rxns \cup {"R3"} |-> OpenUpper]
    /\ present = Rxns \cup {"R3"}
    /\ InitUtil
    /\ InitGapfill
    /\ objective = "orig"
    /\ medium = "none"
    /\ oracle \in OraclesMin
    /\ infeasible = {}
    /\ essential = NoEssential

\* one condition of either kind that is not in change mode, or two
\* max-threshold conditions
MinConditionLists ==
    {cl \in ConditionLists :
        /\ \A i \in 1..Len(cl) : ~cl[i].change
        /\ Len(cl) = 2 => \A i \in 1..2 : cl[i].is_max_threshold}

CallReactionExpansionTestMin ==
    /\ call.name = "none"
    /\ \E condition_list \in MinConditionLists,
          positive_growth \in PositiveGrowthLists :
          \* two conditions are given without positive growth conditions
          /\ Len(condition_list) = 2 => positive_growth = <<>>
          /\ LET r == reaction_expansion_test(
                        Live, Cand, condition_list, TRUE, positive_growth,
                        [c \in CandSet |-> 0])
             IN  /\ SetLive(r.m)
                 /\ call' = [name |-> "reaction_expansion_test",
                             reaction_list |-> Cand,
                             condition_list |-> condition_list,
                             binary_search |-> TRUE,
                             positive_growth |-> positive_growth,
                             scores |-> [c \in CandSet |-> 0]]
                 /\ ret' = r.ret
                 /\ pre' = Some(Live)
    /\ ncalls' = ncalls + 1
    /\ UNCHANGED <<oracle, infeasible, essential, cumulative_gapfilling,
                   self_model, self_mdlutl, default_cumulative_solution>>

NextMin == CallReactionExpansionTestMin

SpecMin == InitMin /\ [][NextMin]_vars

-----------------------------------------------------------------------------
(* Specification of repeated runs of the Reducer (SpecRR): up to MaxRuns   *)
(* calls of reaction_expansion_test with binary search on the same model,  *)
(* for the same conditions.  The positive growth conditions are any        *)
(* condition test_single_condition accepts, max thresholds included.       *)

\* runs of reaction_expansion_test in one behaviour of SpecRR
MaxRuns == 2

InitRR ==
    /\ InitBounds
    /\ InitUtil
    /\ InitGapfill
    /\ objective = "orig"
    /\ medium = "none"
    /\ oracle \in Oracles
    /\ infeasible = {}
    /\ essential = NoEssential

\* a run after the first has the arguments of the first; the caller passes the
\* item lists of the first run again (same) or builds new [rxn, dir] lists
RunReactionExpansionTest ==
    /\ ncalls < MaxRuns
    /\ ncalls > 0 => ret.kind = "list"
    /\ \E condition_list \in ConditionLists,
          positive_growth \in PositiveGrowthLists, scores \in ScoreChoices,
          same \in BOOLEAN :
          /\ ncalls = 0 => same
          /\ ncalls > 0 => /\ condition_list = call.condition_list
                           /\ positive_growth = call.positive_growth
                           /\ scores = call.scores
          /\ LET m0 == IF same THEN Live
                       ELSE [Live EXCEPT !.ext = [c \in CandSet |-> <<>>]]
                 r == reaction_expansion_test(
                        m0, SubSeq(Cand, 1, 3), condition_list, TRUE,
                        positive_growth,
                        scores)
             IN  /\ SetLive(r.m)
                 /\ call' = [name |-> "reaction_expansion_test",
                             reaction_list |-> SubSeq(Cand, 1, 3),
                             condition_list |-> condition_list,
                             binary_search |-> TRUE,
                             positive_growth |-> positive_growth,
                             scores |-> scores]
                 /\ ret' = r.ret
                 /\ pre' = Some(m0)
    /\ ncalls' = ncalls + 1
    /\ UNCHANGED <<oracle, infeasible, essential, cumulative_gapfilling,
                   self_model, self_mdlutl, default_cumulative_solution>>

NextRR == RunReactionExpansionTest

SpecRR == InitRR /\ [][NextRR]_vars

-----------------------------------------------------------------------------
(* Specifications of the Need Tester: one call of test_solution on a model *)
(* into which the solution has been integrated, with 1..MaxTriples         *)
(* (target, media, threshold) triples (SpecTS) or with one (SpecTS1).      *)

TargetOf(i) == IF i = 1 THEN "bio1" ELSE "bio2"

Item(c) == <<c[1], c[2], "new">>

SolutionLists ==
    {<<Item(Cand[1]), Item(Cand[2]), Item(Cand[3])>>,
     <<Item(Cand[3]), Item(Cand[2]), Item(Cand[1])>>,
     <<Item(Cand[1]), Item(Cand[2])>>}

DoNotRemoveLists == {<<>>, <<Item(Cand[2])>>, <<Item(Cand[1]), Item(Cand[3])>>}

InitTS ==
    /\ lb \in {[r \in Rxns |-> IF r = "R1" THEN l ELSE OpenLower] : l \in 0..1}
    /\ ub = [r \in Rxns |-> OpenUpper]
    /\ present = Rxns
    /\ InitUtil
    /\ InitGapfill
    /\ objective = "orig"
    /\ medium \in {"none", "M1"}
    /\ oracle \in Oracles
    /\ infeasible \in {{}, {"M2"}}
    /\ essential = NoEssential

\* do_not_remove_list is read only when remove_unneeded_reactions is set
TestSolutionCall(n) ==
    /\ call.name = "none"
    /\ \E solution \in SolutionLists,
          remove_unneeded_reactions \in BOOLEAN,
          do_not_remove_list \in DoNotRemoveLists :
       /\ (~remove_unneeded_reactions => do_not_remove_list = <<>>)
       /\ \E thresholds \in [1..n -> 1..MaxThreshold] :
          LET targets == [i \in 1..n |-> TargetOf(i)]
              medias == [i \in 1..n |-> MediaOf(i)]
              r == test_solution(Live, solution, targets, medias, thresholds,
                                 remove_unneeded_reactions, do_not_remove_list)
          IN  /\ SetLive(r.m)
              /\ call' = [name |-> "test_solution", solution |-> solution,
                          targets |-> targets, medias |-> medias,
                          thresholds |-> thresholds,
                          remove_unneeded_reactions |-> remove_unneeded_reactions,
                          do_not_remove_list |-> do_not_remove_list]
              \* a call that raises leaves the exception instead of the list
              /\ ret' = IF r.err = "" THEN r.unneeded
                        ELSE <<<<"raise", r.err>>>>
              /\ pre' = Some(Live)
    /\ ncalls' = ncalls + 1
    /\ UNCHANGED <<oracle, infeasible, essential, cumulative_gapfilling,
                   self_model, self_mdlutl, default_cumulative_solution>>

CallTestSolution == \E n \in 1..MaxTriples : TestSolutionCall(n)

CallTestSolutionOneTriple == TestSolutionCall(1)

NextTS == CallTestSolution

SpecTS == InitTS /\ [][NextTS]_vars

NextTS1 == CallTestSolutionOneTriple

SpecTS1 == InitTS /\ [][NextTS1]_vars

-----------------------------------------------------------------------------
(* Properties of test_single_condition (checked under SpecTSC) *)

IsTSC == call.name = "test_single_condition"

\* the value the call compared: the objective value, or in change mode with a
\* non-zero cached test_objective the objective value minus that cached value
ComparedValue ==
    IF /\ call.condition.change
       /\ pre[1].test_objective # None
       /\ pre[1].test_objective[1] # 0
    THEN call.new_objective - pre[1].test_objective[1]
    ELSE call.new_objective

\* C5 as stated: after an optimal solve the call returns False exactly when
\* the objective value is >= threshold (max threshold) or <= threshold (min
\* threshold), and True otherwise
C5_ObjectiveAgainstThreshold ==
    (IsTSC /\ call.status = "optimal") =>
        ret[1] = ~(\/ /\ call.condition.is_max_threshold
                      /\ call.new_objective >= call.condition.threshold
                   \/ /\ ~call.condition.is_max_threshold
                      /\ call.new_objective <= call.condition.threshold)

\* C5 amended: the same with the compared value in place of the objective
\* value; a compared value equal to the threshold fails for both kinds
C5_ComparedValueAgainstThreshold ==
    (IsTSC /\ call.status = "optimal") =>
        /\ ret[1] = ~(\/ /\ call.condition.is_max_threshold
                         /\ ComparedValue >= call.condition.threshold
                      \/ /\ ~call.condition.is_max_threshold
                         /\ ComparedValue <= call.condition.threshold)
        /\ (ComparedValue = call.condition.threshold => ret[1] = FALSE)

C5_Witness ==
    /\ IsTSC
    /\ call.status = "optimal"
    /\ call.condition.change
    /\ ComparedValue # call.new_objective
    /\ ComparedValue = call.condition.threshold
    /\ ret[1] = FALSE

\* C6: when the solver status is not optimal the call returns False, whatever
\* the condition, and test_objective keeps the value it had before the call
C6_NotOptimalFails ==
    (IsTSC /\ call.status # "optimal") =>
        /\ ret = Some(FALSE)
        /\ test_objective = pre[1].test_objective

C6_Witness ==
    /\ IsTSC
    /\ call.status # "optimal"
    /\ pre[1].test_objective # None
    /\ ~call.condition.is_max_threshold
    /\ ret = Some(FALSE)
    /\ test_objective = pre[1].test_objective

-----------------------------------------------------------------------------
(* Properties of the Reducer (C2 checked under SpecBET, the others under   *)
(* Spec)                                                                   *)

IsRET == call.name = "reaction_expansion_test"
IsBET == call.name = "binary_expansion_test"

\* the condition passes on the model in which exactly the candidates of S are
\* open: an optimal solve whose objective value is on the right side of the
\* threshold
CondPasses(condition, S) ==
    /\ condition.media \notin infeasible
    /\ IF condition.is_max_threshold
       THEN oracle[S] < condition.threshold
       ELSE oracle[S] > condition.threshold

MinimalFor(L, reaction_list, condition_list) ==
    /\ \A r \in L : \E i \in 1..Len(condition_list) :
          ~CondPasses(condition_list[i], (CandSet \ L) \cup {r})
    /\ \A i \in 1..Len(condition_list) :
          CondPasses(condition_list[i], CandSet \ Range(reaction_list))

\* C1 as stated: when reaction_expansion_test returns a list L, (a) putting any
\* one reaction of L back while the rest of L stays out breaks an input
\* condition, and (b) with every candidate out every input condition passes
C1_Minimality ==
    (IsRET /\ ret.kind = "list") =>
        MinimalFor(Range(ret.value), call.reaction_list, call.condition_list)

\* the search of the call was restarted: a pass found a breaking reaction, took
\* it off the list and ran again (msmodelutl.py 1703-1714)
Restarted == \E k \in 1..Len(log) : log[k][1] = "breaking"

\* C1 amended: when reaction_expansion_test (binary search) returns a list L
\* for a condition list of one condition that is not in change mode, and no
\* pass of the search found a breaking reaction, (a) putting any one reaction
\* of L back while the rest of L stays out breaks the condition, and (b) with
\* every candidate out the condition passes (the LP being monotone: see
\* Oracles and OraclesMin)
C1_MinimalityWithoutRestart ==
    (/\ IsRET
     /\ ret.kind = "list"
     /\ Len(call.condition_list) = 1
     /\ ~call.condition_list[1].change
     /\ ~Restarted) =>
        MinimalFor(Range(ret.value), call.reaction_list, call.condition_list)

\* a run with a positive growth condition that filters two of the four
\* candidates and finds no breaking reaction
C1_Witness ==
    /\ IsRET
    /\ ret.kind = "list"
    /\ Len(call.condition_list) = 1
    /\ ~call.condition_list[1].change
    /\ ~Restarted
    /\ Len(call.positive_growth) = 1
    /\ call.positive_growth[1].is_max_threshold
    /\ Len(ret.value) = 2
    /\ Len(call.reaction_list) = 4
    /\ MinimalFor(Range(ret.value), call.reaction_list, call.condition_list)

\* the scenario of C2: the objective is 1 whenever R1 is open and 0 when R1
\* and R2 are both closed; the condition is a min threshold of 1
C2_Scenario ==
    /\ IsBET
    /\ call.reaction_list = <<Cand[1], Cand[2]>>
    /\ call.condition.is_max_threshold = FALSE
    /\ call.condition.threshold = 1
    /\ pre[1].medium \notin infeasible
    /\ \A S \in SUBSET CandSet :
          /\ Cand[1] \in S => oracle[S] = 1
          /\ (Cand[1] \notin S /\ Cand[2] \notin S) => oracle[S] = 0

\* C2 as stated: in the scenario binary_expansion_test([R1, R2]) returns [R1]
C2_ReturnsR1 ==
    C2_Scenario => (ret.kind = "list" /\ ret.value = <<Cand[1]>>)

\* C2 amended: in the scenario binary_expansion_test([R1, R2]) returns
\* [R1, R2]: an objective equal to the threshold fails a min threshold, with
\* R1 open and, R1 being closed by then, with R2 open
C2_ReturnsR1R2 ==
    C2_Scenario => (ret.kind = "list" /\ ret.value = <<Cand[1], Cand[2]>>)

C2_Witness ==
    /\ C2_Scenario
    /\ ret.value = <<Cand[1], Cand[2]>>
    /\ ub["R1"] = 0
    /\ ub["R2"] = 0

\* C3 (the claim): when every solve on the media of some condition of the list
\* is infeasible, reaction_expansion_test (binary search) returns None and
\* every bound of the live model is what it was before the call
C3_InfeasibleRollsBack ==
    (/\ IsRET
     /\ call.binary_search
     /\ \E i \in 1..Len(call.condition_list) :
           call.condition_list[i].media \in infeasible) =>
        /\ ret.kind = "None"
        /\ lb = pre[1].lb
        /\ ub = pre[1].ub

\* C4 (the claim): when reaction_expansion_test returns, medium and objective
\* of the live model are what they were before the call, and so is the bound
\* of every candidate that is not in the returned list
C4_Restoration ==
    (IsRET /\ ret.kind \in {"list", "None"}) =>
        /\ medium = pre[1].medium
        /\ objective = pre[1].objective
        /\ \A item \in Range(call.reaction_list) \ Range(ret.value) :
              DirBound(Live, item) = DirBound(pre[1], item)

-----------------------------------------------------------------------------
(* Properties of the Need Tester (C7 checked under SpecTS1, the others    *)
(* under SpecTS)                                                           *)

IsTS == call.name = "test_solution"

\* the call of test_solution ended with an exception of a bound setter
TSRaised == IsTS /\ Len(ret) = 1 /\ Len(ret[1]) = 2

\* the call of test_solution returned its list
TSReturned == IsTS /\ ~TSRaised

\* the (reaction, direction) pairs of a list of items
Pairs(items) == {<<items[k][1], items[k][2]>> : k \in 1..Len(items)}

\* some triple's objective is below its threshold when exactly S is open
BelowSomeThreshold(S) ==
    \E i \in 1..Len(call.targets) :
        /\ call.medias[i] \notin infeasible
        /\ oracle[S] < call.thresholds[i]

\* the pairs of the solution before position j that were returned as unneeded
UnneededBefore(j) ==
    {<<call.solution[k][1], call.solution[k][2]>> : k \in 1..(j - 1)}
        \cap Pairs(ret)

\* C7 as stated, on the calls with one triple: a solution reaction is needed
\* (not returned) exactly when closing it alone, all other solution reactions
\* open, puts the objective of the triple below its threshold
C7_NeededAlone ==
    (IsTS /\ Len(call.targets) = 1) =>
        \A j \in 1..Len(call.solution) :
            LET p == <<call.solution[j][1], call.solution[j][2]>>
            IN  (p \notin Pairs(ret)) <=> BelowSomeThreshold(CandSet \ {p})

\* C7 amended: for a single triple, a solution reaction is needed exactly when
\* closing it, with the earlier reactions of the list that were classified
\* unneeded still closed, puts the objective below the threshold; the list
\* returned holds the other solution reactions in the order of the solution
C7_NeededGivenEarlierUnneeded ==
    (IsTS /\ Len(call.targets) = 1) =>
        /\ \A j \in 1..Len(call.solution) :
              LET p == <<call.solution[j][1], call.solution[j][2]>>
              IN  (p \notin Pairs(ret)) <=>
                      BelowSomeThreshold(CandSet \ (UnneededBefore(j) \cup {p}))
        /\ Pairs(ret) \subseteq Pairs(call.solution)
        /\ \A a, b \in 1..Len(ret) :
              a < b => \E x, y \in 1..Len(call.solution) :
                          /\ x < y
                          /\ <<ret[a][1], ret[a][2]>> =
                                <<call.solution[x][1], call.solution[x][2]>>
                          /\ <<ret[b][1], ret[b][2]>> =
                                <<call.solution[y][1], call.solution[y][2]>>

\* a reaction is needed although the objective stays at the threshold when it
\* alone is closed: an earlier unneeded reaction is closed as well
C7_Witness ==
    /\ IsTS
    /\ Len(call.targets) = 1
    /\ Len(ret) > 0
    /\ \E j \in 1..Len(call.solution) :
          LET p == <<call.solution[j][1], call.solution[j][2]>>
          IN  /\ p \notin Pairs(ret)
              /\ ~BelowSomeThreshold(CandSet \ {p})
              /\ BelowSomeThreshold(CandSet \ (UnneededBefore(j) \cup {p}))

\* C8 (the claim): with remove_unneeded_reactions=False, when the call has
\* returned both bounds of every reaction of the solution are what they were
\* before the call
C8_NonDestructive ==
    (TSReturned /\ ~call.remove_unneeded_reactions) =>
        \A j \in 1..Len(call.solution) :
            /\ lb[call.solution[j][1]] = pre[1].lb[call.solution[j][1]]
            /\ ub[call.solution[j][1]] = pre[1].ub[call.solution[j][1]]

\* C9 (the claim): objective and medium of the live model are what they were
\* before the call, whether or not a medium had been applied and whether the
\* call returned or raised
C9_ObjectiveAndMediumRestored ==
    IsTS => (objective = pre[1].objective /\ medium = pre[1].medium)

\* C10 (the claim): in a call that returned, a reaction is removed only if it
\* was classified unneeded, both its bounds are zero and its id is not in
\* do_not_remove_list; an unneeded reaction that is in do_not_remove_list with
\* its direction stays in the model, the bounds its knockout changed back at
\* their values
C10_RemovalIsProtected ==
    (TSReturned /\ call.remove_unneeded_reactions) =>
        /\ \A r \in pre[1].present \ present :
              /\ \E k \in 1..Len(ret) : ret[k][1] = r
              /\ lb[r] = 0
              /\ ub[r] = 0
              /\ \A k \in 1..Len(call.do_not_remove_list) :
                    call.do_not_remove_list[k][1] # r
        /\ \A k \in 1..Len(ret) :
              <<ret[k][1], ret[k][2]>> \in Pairs(call.do_not_remove_list) =>
                  /\ ret[k][1] \in present
                  /\ DirBound(Live, ret[k]) = DirBound(pre[1], ret[k])

\* the objective on the media of triple i of the call meets its threshold in m
MeetsTriple(m, i) ==
    Ge(slim_optimize([m EXCEPT !.medium = call.medias[i]]), call.thresholds[i])

\* C11 (the claim): with remove_unneeded_reactions=True the list returned is
\* no longer than the solution, and the model left by a call that returned
\* still meets the threshold of every (target, media) pair that the model with
\* the full solution met when the call was made
C11_RemainingStillMeets ==
    (TSReturned /\ call.remove_unneeded_reactions) =>
        /\ Len(ret) <= Len(call.solution)
        /\ \A i \in 1..Len(call.targets) :
              MeetsTriple(pre[1], i) => MeetsTriple(Live, i)

-----------------------------------------------------------------------------
(* Properties of the binary search loop of reaction_expansion_test         *)
(* (checked under Spec)                                                    *)

IsBinaryRET == IsRET /\ call.binary_search

\* the list searched by the last pass that started before position a of the log
RECURSIVE ListBefore(_)
ListBefore(a) ==
    IF a = 0 THEN <<>>
    ELSE IF log[a][1] = "pass" THEN log[a][2] ELSE ListBefore(a - 1)

\* the breaking item found at position a is in no list searched afterwards
RemovedForGood(a) ==
    \A b \in (a + 1)..Len(log) :
        log[b][1] = "pass" => log[a][2] \notin Range(log[b][2])

\* solution existence is verified right after the breaking item is found;
\* if it fails None is returned at once, otherwise a new pass starts on the
\* list without one of its entries
Reverified(a) ==
    /\ a < Len(log)
    /\ log[a + 1][1] = "exists"
    /\ IF log[a + 1][2]
       THEN /\ a + 1 < Len(log)
            /\ log[a + 2][1] = "pass"
            /\ Len(log[a + 2][2]) = Len(ListBefore(a)) - 1
            /\ Range(log[a + 2][2]) \subseteq Range(ListBefore(a))
       ELSE a + 1 = Len(log) /\ ret.kind = "None"

\* C20 (the claim): every breaking reaction found is removed for good from
\* the list that is searched, solution existence is then verified again
\* (None is returned if it fails) and the search starts again on the rest;
\* a list is returned only after a pass that found no breaking reaction, and
\* breaking_reaction is None then
C20_BreakingRemovedSearchRestarted ==
    IsBinaryRET =>
        /\ \A a \in 1..Len(log) :
              log[a][1] = "breaking" => (RemovedForGood(a) /\ Reverified(a))
        /\ ret.kind = "list" =>
              /\ breaking_reaction = None
              /\ Len(log) > 0 => log[Len(log)][1] = "pass"

-----------------------------------------------------------------------------
(* Gene scores of a gene-protein-reaction rule                             *)
(* (modelseedpy/multiomics/msexpression.py, compute_gene_score)            *)
(*                                                                         *)
(* An expression is <<"Name", gene>>, <<"Or", subexpressions>>,            *)
(* <<"And", subexpressions>>, <<"GPR", body>>, <<"None">> (Python None) or *)
(* <<"Not", gene>>, a node the function does not support.  A score is      *)
(* <<>> (None) or <<v>>; TypeError stands for the exception raised.        *)

\* gene values and defaults are 0..MaxGeneValue
MaxGeneValue == 2

Genes == {"g1", "g2"}

Datatypes ==
    {"NormalizedRatios", "RelativeAbundance", "FPKM", "TPM",
     "AbsoluteAbundance", "Other"}

IsAbundance(datatype) ==
    datatype \in {"RelativeAbundance", "FPKM", "TPM", "AbsoluteAbundance"}

TypeError == <<"raise", "TypeError">>

Abs(x) == IF x < 0 THEN 0 - x ELSE x

\* the body of the loop over the subexpressions of an Or, for one value
\* acc: [best, total]
OrStep(acc, value, datatype) ==
    IF value = None THEN acc
    ELSE IF datatype = "NormalizedRatios"
    THEN IF acc.best = None \/ Abs(value[1] - 1) > acc.best[1]
         THEN [best |-> Some(Abs(value[1] - 1)), total |-> value]
         ELSE acc
    ELSE IF IsAbundance(datatype)
    THEN [best |-> acc.best,
          total |-> Some((IF acc.total = None THEN 0 ELSE acc.total[1])
                            + value[1])]
    ELSE acc

\* variant: the smaller value wins on abundance data, as it were an Or with
\* the largest value
AndStep_Largest(acc, value, datatype) ==
    IF value = None THEN acc
    ELSE IF datatype = "NormalizedRatios"
    THEN IF acc.best = None \/ Abs(value[1] - 1) > acc.best[1]
         THEN [best |-> Some(Abs(value[1] - 1)), best_value |-> value]
         ELSE acc
    ELSE IF IsAbundance(datatype)
    THEN IF acc.best = None \/ value[1] > acc.best[1]
         THEN [best |-> value, best_value |-> value]
         ELSE acc
    ELSE acc

\* the body of the loop over the subexpressions of an And, for one value
\* acc: [best, best_value]
AndStep(acc, value, datatype) ==
    IF value = None THEN acc
    ELSE IF datatype = "NormalizedRatios"
    THEN IF acc.best = None \/ Abs(value[1] - 1) > acc.best[1]
         THEN [best |-> Some(Abs(value[1] - 1)), best_value |-> value]
         ELSE acc
    ELSE IF IsAbundance(datatype)
    THEN IF acc.best = None \/ value[1] < acc.best[1]
         THEN [best |-> value, best_value |-> value]
         ELSE acc
    ELSE acc

\* returns the score, or TypeError when the call raises
RECURSIVE compute_gene_score(_, _, _, _)
RECURSIVE OrLoop(_, _, _, _, _, _)
RECURSIVE AndLoop(_, _, _, _, _, _)
RECURSIVE OrValue(_, _, _, _, _, _, _)
RECURSIVE AndValue(_, _, _, _, _, _, _)
\* OrValue, AndValue: the subexpression number i has been scored (value); an
\* exception raised by it ends the call
OrValue(value, subs, values, default, datatype, i, acc) ==
    IF value = TypeError THEN TypeError
    ELSE OrLoop(subs, values, default, datatype, i + 1,
                OrStep(acc, value, datatype))

AndValue(value, subs, values, default, datatype, i, acc) ==
    IF value = TypeError THEN TypeError
    ELSE AndLoop(subs, values, default, datatype, i + 1,
                 AndStep(acc, value, datatype))

OrLoop(subs, values, default, datatype, i, acc) ==
    IF i > Len(subs) THEN acc.total
    ELSE OrValue(compute_gene_score(subs[i], values, default, datatype),
                 subs, values, default, datatype, i, acc)

AndLoop(subs, values, default, datatype, i, acc) ==
    IF i > Len(subs) THEN acc.best_value
    ELSE AndValue(compute_gene_score(subs[i], values, default, datatype),
                  subs, values, default, datatype, i, acc)

compute_gene_score(expr, values, default, datatype) ==
    IF expr[1] = "GPR"
    THEN compute_gene_score(expr[2], values, default, datatype)
    ELSE IF expr[1] = "Name"
    THEN IF values[expr[2]] # None THEN values[expr[2]] ELSE default
    ELSE IF expr[1] = "Or"
    THEN OrLoop(expr[2], values, default, datatype, 1,
                [best |-> None, total |-> None])
    ELSE IF expr[1] = "And"
    THEN AndLoop(expr[2], values, default, datatype, 1,
                 [best |-> None, best_value |-> None])
    ELSE IF expr[1] = "None" THEN default
    ELSE TypeError

-----------------------------------------------------------------------------
(* Specification of compute_gene_score: one call on an expression of depth *)
(* at most two over the genes, with each gene's value present or missing   *)

Names == {<<"Name", g>> : g \in Genes}

\* Or and And nodes with one or two subexpressions taken from E
BoolOps(E) ==
    {<<op, subs>> : op \in {"Or", "And"},
                    subs \in UNION {[1..n -> E] : n \in 1..2}}

Expressions ==
    LET level1 == Names \cup BoolOps(Names)
        level2 == level1 \cup {<<op, subs>> : op \in {"Or", "And"},
                                              subs \in [1..2 -> level1]}
    IN  level2 \cup {<<"GPR", e>> : e \in level1}
               \cup {<<"None">>, <<"Not", "g1">>,
                     <<"Or", <<<<"Name", "g1">>, <<"Not", "g2">>>>>>}

Scores == {None} \cup {Some(v) : v \in 0..MaxGeneValue}

InitCGS ==
    /\ InitBounds
    /\ InitUtil
    /\ InitGapfill
    /\ objective = "orig"
    /\ medium = "none"
    /\ oracle = [S \in SUBSET CandSet |-> 0]
    /\ infeasible = {}
    /\ essential = NoEssential

CallComputeGeneScore ==
    /\ call.name = "none"
    /\ \E expr \in Expressions, values \in [Genes -> Scores],
          default \in Scores, datatype \in Datatypes :
          /\ call' = [name |-> "compute_gene_score", expr |-> expr,
                      values |-> values, default |-> default,
                      datatype |-> datatype]
          /\ ret' = compute_gene_score(expr, values, default, datatype)
          /\ pre' = Some(Live)
    /\ ncalls' = ncalls + 1
    /\ UNCHANGED <<lb, ub, present, objective, medium, test_objective, score,
                   breaking_reaction, attributes, ext, log, oracle, infeasible,
                   essential, integrated_gapfillings, cumulative_gapfilling,
                   self_model, self_mdlutl, default_cumulative_solution>>

NextCGS == CallComputeGeneScore

SpecCGS == InitCGS /\ [][NextCGS]_vars

-----------------------------------------------------------------------------
(* Properties of compute_gene_score (checked under SpecCGS) *)

IsCGS == call.name = "compute_gene_score"

\* the expression is made of genes, Or and And only
RECURSIVE Supported(_)
Supported(e) ==
    IF e[1] = "Name" THEN TRUE
    ELSE IF e[1] \in {"Or", "And"}
    THEN \A k \in 1..Len(e[2]) : Supported(e[2][k])
    ELSE IF e[1] = "GPR" THEN Supported(e[2])
    ELSE FALSE

RECURSIVE SumOf(_)
SumOf(s) == IF s = <<>> THEN 0 ELSE Head(s) + SumOf(Tail(s))

MinOf(s) == CHOOSE x \in Range(s) : \A y \in Range(s) : x <= y

\* the score the claim gives to an expression: the gene's value (the default
\* when it has none), the sum over the subexpressions of an Or, the minimum
\* over those of an And
RECURSIVE AbundanceScore(_)
AbundanceScore(e) ==
    IF e[1] = "Name"
    THEN IF call.values[e[2]] # None THEN call.values[e[2]][1]
         ELSE call.default[1]
    ELSE IF e[1] = "GPR" THEN AbundanceScore(e[2])
    ELSE IF e[1] = "Or"
    THEN SumOf([k \in 1..Len(e[2]) |-> AbundanceScore(e[2][k])])
    ELSE MinOf([k \in 1..Len(e[2]) |-> AbundanceScore(e[2][k])])

\* C19: on abundance data, with a numeric default, the score of an expression
\* is the gene's value for a gene (the default when the gene has no value),
\* the sum of the scores of the subexpressions for an Or and their minimum
\* for an And, at every depth
C19_AbundanceSumAndMin ==
    (/\ IsCGS
     /\ IsAbundance(call.datatype)
     /\ call.default # None
     /\ Supported(call.expr)) =>
        ret = Some(AbundanceScore(call.expr))

\* an And of an Or and a gene whose Or sums two different values, one of them
\* the default, and whose minimum is the other operand
C19_Witness ==
    /\ IsCGS
    /\ IsAbundance(call.datatype)
    /\ call.default = Some(1)
    /\ call.expr = <<"And", << <<"Or", << <<"Name", "g1">>, <<"Name", "g2">> >> >>,
                              <<"Name", "g1">> >> >>
    /\ call.values = [g \in Genes |-> IF g = "g1" THEN Some(2) ELSE None]
    /\ ret = Some(2)

-----------------------------------------------------------------------------
(* Integration of gapfilling solutions (modelseedpy/core/msgapfill.py)     *)
(*                                                                         *)
(* The gapfilling LP is an input (env): the media that pass the database   *)
(* test, the solution of the LP of each media (None when its status is not *)
(* optimal) and the solution of the global LP.  A solution is              *)
(* [new, reversed], each a sequence of <<reaction, direction>> in the      *)
(* order of the keys of the Python dict.  The state of a run is            *)
(* g = [m, cumulative_solution, cumulative_gapfilling, solution_dictionary]*)
(* where solution_dictionary is a sequence of <<media, entry>>.            *)

\* what is compared of a model before and after a step
Snapshot(m) == [lb |-> m.lb, ub |-> m.ub, present |-> m.present]

convert_solution_to_list(solution) ==
    [k \in 1..Len(solution.new) |->
        <<solution.new[k][1], solution.new[k][2], "new">>]
    \o [k \in 1..Len(solution.reversed) |->
        <<solution.reversed[k][1], solution.reversed[k][2], "reversed">>]

\* d[key] = value on a dict kept as a sequence of <<key, value>>
DictSet(d, key, value) ==
    IF \E k \in 1..Len(d) : d[k][1] = key
    THEN [k \in 1..Len(d) |-> IF d[k][1] = key THEN <<key, value>> ELSE d[k]]
    ELSE Append(d, <<key, value>>)

DictKeys(d) == {d[k][1] : k \in 1..Len(d)}

\* rxn.upper_bound = v for an item of direction ">", rxn.lower_bound = v for
\* the other direction: the setter raises ValueError and leaves the bound when
\* the lower bound would be above the upper bound; returns [m, err]
SetBound(m, item, v) ==
    IF item[2] = ">"
    THEN IF m.lb[item[1]] > v THEN [m |-> m, err |-> "ValueError"]
         ELSE [m |-> [m EXCEPT !.ub[item[1]] = v], err |-> ""]
    ELSE IF v > m.ub[item[1]] THEN [m |-> m, err |-> "ValueError"]
         ELSE [m |-> [m EXCEPT !.lb[item[1]] = v], err |-> ""]

\* Independent mode: the gapfilled direction of every cumulative reaction is
\* closed; get_by_id raises KeyError for a reaction the model does not have
\* returns [m, err], the loop ends at the first exception
RECURSIVE Suppress(_, _, _)
Suppress(m, cumulative_solution, i) ==
    IF i > Len(cumulative_solution) THEN [m |-> m, err |-> ""]
    ELSE IF cumulative_solution[i][1] \notin m.present
    THEN [m |-> m, err |-> "KeyError"]
    ELSE IF SetBound(m, cumulative_solution[i], 0).err # ""
    THEN SetBound(m, cumulative_solution[i], 0)
    ELSE Suppress(SetBound(m, cumulative_solution[i], 0).m,
                  cumulative_solution, i + 1)

\* the reaction is copied from the gapfilling model, where both directions are
\* open, and added to the model
AddReaction(m, rxn) ==
    [m EXCEPT !.present = @ \cup {rxn}, !.lb[rxn] = OpenLower,
              !.ub[rxn] = OpenUpper]

\* variant: the bounds of an added reaction are left as copied
IntegrateItem_BoundsAsCopied(m, item) ==
    SetBound(IF item[1] \notin m.present THEN AddReaction(m, item[1]) ELSE m,
             item, IF item[2] = ">" THEN OpenUpper ELSE OpenLower)

\* one item of the solution: the reaction is added with both bounds cleared
\* if the model does not have it, then the gapfilled direction is opened
\* returns [m, err]
IntegrateItem(m, item) ==
    SetBound(IF item[1] \notin m.present
             THEN [AddReaction(m, item[1]) EXCEPT !.ub[item[1]] = 0,
                                                  !.lb[item[1]] = 0]
             ELSE m,
             item, IF item[2] = ">" THEN OpenUpper ELSE OpenLower)

\* variant: every item of list_solution is taken as new for the cumulative solution
RECURSIVE IntegrateLoop_AllNew(_, _, _, _, _)
IntegrateLoop_AllNew(m, list_solution, cumulative_solution, i, new_cumulative_reactions) ==
    IF i > Len(list_solution)
    THEN [m |-> m, new_cumulative_reactions |-> new_cumulative_reactions,
          err |-> ""]
    ELSE IF IntegrateItem(m, list_solution[i]).err # ""
    THEN [m |-> IntegrateItem(m, list_solution[i]).m,
          new_cumulative_reactions |-> new_cumulative_reactions,
          err |-> IntegrateItem(m, list_solution[i]).err]
    ELSE IntegrateLoop_AllNew(
            IntegrateItem(m, list_solution[i]).m, list_solution,
            cumulative_solution, i + 1,
            Append(new_cumulative_reactions, list_solution[i]))

\* the loop over list_solution; returns [m, new_cumulative_reactions, err]: it
\* ends where a bound setter raises
RECURSIVE IntegrateLoop(_, _, _, _, _)
IntegrateLoop(m, list_solution, cumulative_solution, i, new_cumulative_reactions) ==
    IF i > Len(list_solution)
    THEN [m |-> m, new_cumulative_reactions |-> new_cumulative_reactions,
          err |-> ""]
    ELSE IF IntegrateItem(m, list_solution[i]).err # ""
    THEN [m |-> IntegrateItem(m, list_solution[i]).m,
          new_cumulative_reactions |-> new_cumulative_reactions,
          err |-> IntegrateItem(m, list_solution[i]).err]
    ELSE IntegrateLoop(
            IntegrateItem(m, list_solution[i]).m, list_solution,
            cumulative_solution, i + 1,
            IF find_item_in_solution(cumulative_solution, list_solution[i], FALSE)
            THEN new_cumulative_reactions
            ELSE Append(new_cumulative_reactions, list_solution[i]))

\* current_media_target_solution[item[2]][item[0]] = item[1]
EntrySet(entry, item) ==
    IF item[3] = "new"
    THEN [entry EXCEPT !.new = DictSet(@, item[1], item[2])]
    ELSE [entry EXCEPT !.reversed = DictSet(@, item[1], item[2])]

\* Independent mode: the items of list_solution that are not unneeded go into
\* the entry and, if not there yet, into the cumulative solution
\* c: [entry, cumulative_solution]
RECURSIVE CollectIndependent(_, _, _, _)
CollectIndependent(list_solution, unneeded, i, c) ==
    IF i > Len(list_solution) THEN c
    ELSE CollectIndependent(
            list_solution, unneeded, i + 1,
            IF find_item_in_solution(unneeded, list_solution[i], FALSE) THEN c
            ELSE [entry |-> EntrySet(c.entry, list_solution[i]),
                  cumulative_solution |->
                    IF find_item_in_solution(c.cumulative_solution,
                                             list_solution[i], FALSE)
                    THEN c.cumulative_solution
                    ELSE Append(c.cumulative_solution, list_solution[i])])

\* the other modes: the cumulative items that are not unneeded go into the entry
RECURSIVE CollectCumulative(_, _, _, _)
CollectCumulative(cumulative_solution, unneeded, i, entry) ==
    IF i > Len(cumulative_solution) THEN entry
    ELSE CollectCumulative(
            cumulative_solution, unneeded, i + 1,
            IF find_item_in_solution(unneeded, cumulative_solution[i], FALSE)
            THEN entry ELSE EntrySet(entry, cumulative_solution[i]))

\* the other modes: the new items that are not unneeded go into the entry and
\* into the cumulative solution
RECURSIVE CollectNew(_, _, _, _)
CollectNew(new_cumulative_reactions, unneeded, i, c) ==
    IF i > Len(new_cumulative_reactions) THEN c
    ELSE CollectNew(
            new_cumulative_reactions, unneeded, i + 1,
            IF find_item_in_solution(unneeded, new_cumulative_reactions[i], FALSE)
            THEN c
            ELSE [entry |-> EntrySet(c.entry, new_cumulative_reactions[i]),
                  cumulative_solution |->
                    Append(c.cumulative_solution, new_cumulative_reactions[i])])

EmptyEntry(solution) ==
    [growth |-> 0, media |-> solution.media, target |-> solution.target,
     minobjective |-> solution.minobjective, new |-> <<>>, reversed |-> <<>>]

\* variant: the Need Tester is given the solution of the media in every mode
TestedSolution_OwnSolution(g, solution, gapfilling_mode, l) ==
    convert_solution_to_list(solution)

\* the solution handed to the Need Tester
TestedSolution(g, solution, gapfilling_mode, l) ==
    IF gapfilling_mode = "Independent" THEN convert_solution_to_list(solution)
    ELSE g.cumulative_solution \o l.new_cumulative_reactions

\* the end of integrate_gapfill_solution: growth check, add_gapfilling,
\* cumulative_gapfilling; c is [entry, cumulative_solution], m the model the
\* Need Tester left with the growth medium applied, ev the record of the call
\* returns the state of the run and the entry
IntegrationDone(g, c, m, growth, ev) ==
    [m |-> [m EXCEPT !.integrated_gapfillings =
                        Append(@, [c.entry EXCEPT !.growth = growth]),
                     !.log = Append(@, <<"integrate",
                                [ev EXCEPT !.left = Snapshot(m),
                                           !.cumulative_after =
                                                c.cumulative_solution]>>)],
     cumulative_solution |-> c.cumulative_solution,
     cumulative_gapfilling |-> g.cumulative_gapfilling \o c.cumulative_solution,
     solution_dictionary |-> g.solution_dictionary,
     entry |-> [c.entry EXCEPT !.growth = growth], err |-> ""]

IntegrationCollected(g, solution, check_for_growth, c, m, ev) ==
    IF check_for_growth
    THEN IntegrationDone(g, c, build_package(m, solution.media),
                         slim_optimize(build_package(m, solution.media)), ev)
    ELSE IntegrationDone(g, c, m, 0, ev)

\* integrate_gapfill_solution is left by the exception err with the model m:
\* nothing is collected, the lists of the run are as they were
IntegrationRaised(g, solution, m, err) ==
    [m |-> m, cumulative_solution |-> g.cumulative_solution,
     cumulative_gapfilling |-> g.cumulative_gapfilling,
     solution_dictionary |-> g.solution_dictionary,
     entry |-> EmptyEntry(solution), err |-> err]

\* t: what test_solution returned, [m, unneeded, err]; an exception of
\* test_solution leaves integrate_gapfill_solution where it was called
IntegrationTested(g, solution, check_for_growth, gapfilling_mode, l, t, ev) ==
    IF t.err # "" THEN IntegrationRaised(g, solution, t.m, t.err)
    ELSE
    IntegrationCollected(
        g, solution, check_for_growth,
        IF gapfilling_mode = "Independent"
        THEN CollectIndependent(
                convert_solution_to_list(solution), t.unneeded, 1,
                [entry |-> EmptyEntry(solution),
                 cumulative_solution |-> g.cumulative_solution])
        ELSE CollectNew(
                l.new_cumulative_reactions, t.unneeded, 1,
                [entry |-> CollectCumulative(g.cumulative_solution, t.unneeded,
                                             1, EmptyEntry(solution)),
                 cumulative_solution |-> g.cumulative_solution]),
        t.m, [ev EXCEPT !.unneeded = t.unneeded])

\* l: what the loop over list_solution returned,
\* [m, new_cumulative_reactions, err]
IntegrationOpened(g, solution, remove_unneeded_reactions, check_for_growth, gapfilling_mode, l) ==
    IF l.err # "" THEN IntegrationRaised(g, solution, l.m, l.err)
    ELSE
    IntegrationTested(
        g, solution, check_for_growth, gapfilling_mode, l,
        test_solution(l.m, TestedSolution(g, solution, gapfilling_mode, l),
                      <<solution.target>>, <<solution.media>>,
                      <<solution.minobjective>>, remove_unneeded_reactions,
                      g.cumulative_solution),
        [media |-> solution.media, mode |-> gapfilling_mode,
         solution |-> convert_solution_to_list(solution),
         entered |-> Snapshot(g.m),
         before_loop |-> Snapshot(IF gapfilling_mode = "Independent"
                                  THEN Suppress(g.m, g.cumulative_solution,
                                                1).m
                                  ELSE g.m),
         opened |-> Snapshot(l.m),
         tested |-> TestedSolution(g, solution, gapfilling_mode, l),
         unneeded |-> <<>>, cumulative_before |-> g.cumulative_solution,
         cumulative_after |-> <<>>, left |-> Snapshot(l.m)])

\* s: what the loop over the cumulative solution left, [m, err]
IntegrationSuppressed(g, solution, remove_unneeded_reactions, check_for_growth, gapfilling_mode, s) ==
    IF s.err # "" THEN IntegrationRaised(g, solution, s.m, s.err)
    ELSE IntegrationOpened(
            g, solution, remove_unneeded_reactions, check_for_growth,
            gapfilling_mode,
            IntegrateLoop(s.m, convert_solution_to_list(solution),
                          g.cumulative_solution, 1, <<>>))

\* returns the state of the run with the entry computed for the media; a
\* solution of None raises TypeError at solution["target"] (line 673), before
\* anything is changed
integrate_gapfill_solution(g, solution, remove_unneeded_reactions, check_for_growth, gapfilling_mode) ==
    IF solution = None
    THEN [m |-> g.m, cumulative_solution |-> g.cumulative_solution,
          cumulative_gapfilling |-> g.cumulative_gapfilling,
          solution_dictionary |-> g.solution_dictionary,
          entry |-> None, err |-> "TypeError"]
    ELSE
    IntegrationSuppressed(
        g, solution, remove_unneeded_reactions, check_for_growth,
        gapfilling_mode,
        IF gapfilling_mode = "Independent"
        THEN Suppress([g.m EXCEPT !.objective = solution.target],
                      g.cumulative_solution, 1)
        ELSE [m |-> [g.m EXCEPT !.objective = solution.target], err |-> ""])

\* self.default_minimum_objective of an MSGapfill built with minimum_obj=1
DefaultMinimumObjective == 1

\* the database test of a media, on the gapfilling model: env.dbpass are the
\* media that pass, env.status the status of the test solution of the others
\* a failure that is not infeasible is noted in the attributes of the model,
\* under gf_sensitivity[media][target]["FBF"] before filtering and ["FAF"]
\* after; returns [m, ok]
test_gapfill_database(m, env, media, target, before_filtering) ==
    IF media \in env.dbpass THEN [m |-> m, ok |-> TRUE]
    ELSE IF env.status = "infeasible" THEN [m |-> m, ok |-> FALSE]
    ELSE IF target # "rxn00062_c0"
    THEN [m |-> [m EXCEPT !.attributes = @ \cup
                    {<<"gf_sensitivity", media, target,
                       IF before_filtering THEN "FBF" ELSE "FAF">>}],
          ok |-> FALSE]
    ELSE [m |-> m, ok |-> FALSE]

\* run_gapfilling with prefilter=False: None when the database test fails or
\* the LP is not optimal, otherwise the solution of the LP for the media
\* a minimum_obj of zero is replaced by the default; returns [m, out]
run_gapfilling(m, env, media, target, minimum_obj) ==
    IF ~test_gapfill_database(m, env, media, target, FALSE).ok
    THEN [m |-> test_gapfill_database(m, env, media, target, FALSE).m,
          out |-> None]
    ELSE IF env.lp[media] = None THEN [m |-> m, out |-> None]
    ELSE [m |-> m,
          out |-> Some([new |-> env.lp[media][1].new,
                        reversed |-> env.lp[media][1].reversed,
                        media |-> media, target |-> target,
                        minobjective |-> IF minimum_obj = 0
                                         THEN DefaultMinimumObjective
                                         ELSE minimum_obj])]

\* one pass of the database test over the conditions from number i on; out
\* holds the model and the conditions that passed so far
RECURSIVE TestConditions(_, _, _, _, _, _, _)
TestConditions(out, env, medias, targets, thresholds, before_filtering, i) ==
    IF i > Len(medias) THEN out
    ELSE IF test_gapfill_database(out.m, env, medias[i], targets[i],
                                  before_filtering).ok
    THEN TestConditions([out EXCEPT !.medias = Append(@, medias[i]),
                                    !.targets = Append(@, targets[i]),
                                    !.thresholds = Append(@, thresholds[i])],
                        env, medias, targets, thresholds, before_filtering,
                        i + 1)
    ELSE TestConditions([out EXCEPT !.m =
                            test_gapfill_database(@, env, medias[i], targets[i],
                                                  before_filtering).m],
                        env, medias, targets, thresholds, before_filtering,
                        i + 1)

\* the conditions left after the pass over the unfiltered database
Filtered(env, output, prefilter) ==
    IF prefilter
    THEN TestConditions([m |-> output.m, medias |-> <<>>, targets |-> <<>>,
                         thresholds |-> <<>>],
                        env, output.medias, output.targets, output.thresholds,
                        FALSE, 1)
    ELSE output

\* the media that pass the database test, with their targets and thresholds:
\* a pass before filtering, and with prefilter a pass after it; there are no
\* test conditions, so that the filter leaves the database as it is
\* returns [m, medias, targets, thresholds]
test_and_adjust_gapfilling_conditions(m, env, medias, targets, thresholds, prefilter) ==
    Filtered(env,
             TestConditions([m |-> m, medias |-> <<>>, targets |-> <<>>,
                             thresholds |-> <<>>],
                            env, medias, targets, thresholds, TRUE, 1),
             prefilter)

\* test_output: what test_and_adjust_gapfilling_conditions returned; the
\* solution computed from the merged LP has the keys "new" and "reversed"
GlobalSolved(env, test_output) ==
    IF Len(test_output.medias) = 0 THEN [m |-> test_output.m, out |-> None]
    ELSE IF env.global = None THEN [m |-> test_output.m, out |-> None]
    ELSE [m |-> test_output.m,
          out |-> Some([new |-> env.global[1].new,
                        reversed |-> env.global[1].reversed])]

\* None when no media passes the database test or the merged LP is not
\* optimal; returns [m, out]
run_global_gapfilling(m, env, medias, targets, thresholds, prefilter) ==
    GlobalSolved(env,
                 test_and_adjust_gapfilling_conditions(m, env, medias, targets,
                                                       thresholds, prefilter))

\* the loop over the media in Sequential and Independent mode, from media i
\* MediaSolved: run_gapfilling has returned (solution)
\* MediaIntegrated: the solution has been integrated (gi)
RECURSIVE MediaLoop(_, _, _, _, _, _, _)
RECURSIVE MediaSolved(_, _, _, _, _, _, _, _)
RECURSIVE MediaIntegrated(_, _, _, _, _, _, _)
MediaIntegrated(gi, env, test_output, i, remove_unneeded_reactions, check_for_growth, gapfilling_mode) ==
    IF gi.err # "" THEN gi
    ELSE
    MediaLoop([gi EXCEPT !.solution_dictionary =
                            DictSet(@, test_output.medias[i], gi.entry)],
              env, test_output, i + 1, remove_unneeded_reactions,
              check_for_growth, gapfilling_mode)

\* variant: the loop over the media stops at the first media without solution
MediaSolved_StopAtNone(g, env, test_output, i, remove_unneeded_reactions, check_for_growth, gapfilling_mode, solution) ==
    IF solution.out = None THEN [g EXCEPT !.m = solution.m]
    ELSE MediaIntegrated(
            integrate_gapfill_solution([g EXCEPT !.m = solution.m],
                                       solution.out[1],
                                       remove_unneeded_reactions,
                                       check_for_growth, gapfilling_mode),
            env, test_output, i, remove_unneeded_reactions, check_for_growth,
            gapfilling_mode)

MediaSolved(g, env, test_output, i, remove_unneeded_reactions, check_for_growth, gapfilling_mode, solution) ==
    IF solution.out = None
    THEN MediaLoop([g EXCEPT !.m = solution.m], env, test_output, i + 1,
                   remove_unneeded_reactions, check_for_growth, gapfilling_mode)
    ELSE MediaIntegrated(
            integrate_gapfill_solution([g EXCEPT !.m = solution.m],
                                       solution.out[1],
                                       remove_unneeded_reactions,
                                       check_for_growth, gapfilling_mode),
            env, test_output, i, remove_unneeded_reactions, check_for_growth,
            gapfilling_mode)

MediaLoop(g, env, test_output, i, remove_unneeded_reactions, check_for_growth, gapfilling_mode) ==
    IF i > Len(test_output.medias) THEN g
    ELSE MediaSolved(g, env, test_output, i, remove_unneeded_reactions,
                     check_for_growth, gapfilling_mode,
                     run_gapfilling(
                        [g.m EXCEPT !.log = Append(@, <<"run_gapfilling",
                                                        test_output.medias[i]>>)],
                        env, test_output.medias[i], test_output.targets[i],
                        test_output.thresholds[i]))

\* Global mode: the full solution is integrated for every media in turn,
\* with remove_unneeded_reactions=False
RECURSIVE GlobalLoop(_, _, _, _, _)
RECURSIVE GlobalIntegrated(_, _, _, _, _)
GlobalIntegrated(gi, test_output, full_solution, i, check_for_growth) ==
    IF gi.err # "" THEN gi
    ELSE
    GlobalLoop([gi EXCEPT !.solution_dictionary =
                            DictSet(@, test_output.medias[i], gi.entry)],
               test_output, full_solution, i + 1, check_for_growth)

GlobalLoop(g, test_output, full_solution, i, check_for_growth) ==
    IF i > Len(test_output.medias) THEN g
    ELSE GlobalIntegrated(
            integrate_gapfill_solution(
                g, [new |-> full_solution.new,
                    reversed |-> full_solution.reversed,
                    media |-> test_output.medias[i],
                    target |-> test_output.targets[i],
                    minobjective |-> test_output.thresholds[i]],
                FALSE, check_for_growth, "Global"),
            test_output, full_solution, i, check_for_growth)

\* the loops that print the bounds of the integrated gapfillings read rxn.id
\* of the keys of item["new"] and item["reversed"], which are strings
PrintBoundsRaises(m) ==
    \E k \in 1..Len(m.integrated_gapfillings) :
        \/ m.integrated_gapfillings[k].new # <<>>
        \/ m.integrated_gapfillings[k].reversed # <<>>

\* the exception a run raises, as the value of its outcome
AttributeError == <<<<"AttributeError">>>>

\* the exception test_solution raised, as the value of the outcome of the run
RaisedBy(err) == <<<<err>>>>

\* the result of a run: the state of the run and what the call returns or raises
Outcome(g, kind, value) == [g |-> g, ret |-> [kind |-> kind, value |-> value]]

\* Global mode after the integrations: the final test of the cumulative solution
GlobalTested(g, t) ==
    IF t.err # "" THEN Outcome([g EXCEPT !.m = t.m], "raise", RaisedBy(t.err))
    ELSE Outcome([g EXCEPT !.m = t.m], "dict", t.unneeded)

GlobalFinish(g, test_output) ==
    IF g.err # "" THEN Outcome(g, "raise", RaisedBy(g.err))
    ELSE IF PrintBoundsRaises(g.m) THEN Outcome(g, "raise", AttributeError)
    ELSE GlobalTested(g, test_solution(g.m, g.cumulative_solution,
                                       test_output.targets, test_output.medias,
                                       test_output.thresholds, TRUE, <<>>))

\* Global mode: full_solution.copy() raises when run_global_gapfilling
\* returned None
\* full_solution: what run_global_gapfilling returned, [m, out]
GlobalMode(g, test_output, full_solution, check_for_growth) ==
    IF full_solution.out = None
    THEN Outcome([g EXCEPT !.m = full_solution.m], "raise", AttributeError)
    ELSE GlobalFinish(GlobalLoop([g EXCEPT !.m = full_solution.m], test_output,
                                 full_solution.out[1], 1, check_for_growth),
                      test_output)

\* sensitivity analysis: the (reaction, direction) pairs of the entries of the
\* media with growth are attributed to the first media that has them; d is
\* the solution dictionary, seen the pairs attributed so far
EntryPairs(entry) ==
    {<<entry.new[k][1], entry.new[k][2]>> : k \in 1..Len(entry.new)}
    \cup {<<entry.reversed[k][1], entry.reversed[k][2]>> :
            k \in 1..Len(entry.reversed)}

\* the pairs media_reaction_hash keeps for the media of an entry: the pairs no
\* media before has, and one direction for a reaction, the one of "reversed"
\* written over the one of "new"
HashedPairs(entry, seen) ==
    {p \in EntryPairs(entry) \ seen :
        \/ \E k \in 1..Len(entry.reversed) :
                <<entry.reversed[k][1], entry.reversed[k][2]>> = p
        \/ \A k \in 1..Len(entry.reversed) :
                entry.reversed[k][1] = p[1]
                => <<entry.reversed[k][1], entry.reversed[k][2]>> \in seen}

\* the output of gf_sensitivity, for the media of the solution dictionary in
\* their order: the key "success" or "failure" is written, and under "success"
\* rxn_sensitivity_hash is read for every pair of the entry, a KeyError for a
\* pair no knockout was run for; the dictionary of get_attributes is the stored
\* one, what was written before the exception stays; returns [m, err]
RECURSIVE SensitivityOutput(_, _, _, _, _)
SensitivityOutput(m, d, target, tested, i) ==
    IF i > Len(d) THEN [m |-> m, err |-> ""]
    ELSE IF ~Lt(0, d[i][2].growth)
    THEN SensitivityOutput(
            [m EXCEPT !.attributes =
                @ \cup {<<"gf_sensitivity", d[i][1], target, "failure">>}],
            d, target, tested, i + 1)
    ELSE IF ~(EntryPairs(d[i][2]) \subseteq tested)
    THEN [m |-> [m EXCEPT !.attributes =
                    @ \cup {<<"gf_sensitivity", d[i][1], target, "success">>}],
          err |-> "KeyError"]
    ELSE SensitivityOutput(
            [m EXCEPT !.attributes =
                @ \cup {<<"gf_sensitivity", d[i][1], target, "success">>}],
            d, target, tested, i + 1)

\* the knockouts, for the media of media_reaction_hash in the order of their
\* insertion: build_package(media), then find_unproducible_biomass_compounds
\* closes on a copy of the model the direction of every pair whose reaction
\* the model has, and the setter raises ValueError where the other bound
\* forbids it; seen: the pairs of reaction_media_hash, tested: the pairs of
\* rxn_sensitivity_hash; the target reaction is taken to be in the model
RECURSIVE SensitivityTests(_, _, _, _, _, _)
SensitivityTests(m, d, target, i, seen, tested) ==
    IF i > Len(d) THEN SensitivityOutput(m, d, target, tested, 1)
    ELSE IF ~Lt(0, d[i][2].growth)
    THEN SensitivityTests(m, d, target, i + 1, seen, tested)
    ELSE IF HashedPairs(d[i][2], seen) = {}
    THEN SensitivityTests(m, d, target, i + 1,
                          seen \cup EntryPairs(d[i][2]), tested)
    ELSE IF \E p \in HashedPairs(d[i][2], seen) :
                p[1] \in m.present /\ SetBound(m, p, 0).err # ""
    THEN [m |-> build_package(m, d[i][1]), err |-> "ValueError"]
    ELSE SensitivityTests(build_package(m, d[i][1]), d, target, i + 1,
                          seen \cup EntryPairs(d[i][2]),
                          tested \cup HashedPairs(d[i][2], seen))

\* returns [m, err]
SensitivityAnalysis(m, d, target) == SensitivityTests(m, d, target, 1, {}, {})

\* a: what the sensitivity analysis returned; an exception leaves
\* run_multi_gapfill before the solution dictionary is returned
Analysed(g, a) ==
    IF a.err # ""
    THEN Outcome([g EXCEPT !.m = a.m], "raise", RaisedBy(a.err))
    ELSE Outcome([g EXCEPT !.m = a.m], "dict", g.solution_dictionary)

\* the end of run_multi_gapfill: o is the outcome of the integration policy
Finished(o, target, run_sensitivity_analysis) ==
    IF o.ret.kind = "raise" THEN o
    ELSE IF run_sensitivity_analysis
    THEN Analysed(o.g, SensitivityAnalysis(o.g.m, o.g.solution_dictionary,
                                           target))
    ELSE Outcome(o.g, "dict", o.g.solution_dictionary)

\* the loop over the media has ended in state g
MediaDone(g) ==
    IF g.err # "" THEN Outcome(g, "raise", RaisedBy(g.err))
    ELSE Outcome(g, "dict", <<>>)

Policy(g, env, test_output, check_for_growth, gapfilling_mode, remove_unneeded_reactions) ==
    IF gapfilling_mode = "Global"
    THEN GlobalMode(g, test_output,
                    run_global_gapfilling(g.m, env, test_output.medias,
                                          test_output.targets,
                                          test_output.thresholds, FALSE),
                    check_for_growth)
    ELSE MediaDone(MediaLoop(g, env, test_output, 1, remove_unneeded_reactions,
                             check_for_growth, gapfilling_mode))

\* test_output: what test_and_adjust_gapfilling_conditions returned, with the
\* model it left
Adjusted(g, env, test_output, target, check_for_growth, gapfilling_mode, run_sensitivity_analysis, remove_unneeded_reactions) ==
    IF Len(test_output.medias) = 0
    THEN Outcome([g EXCEPT !.m = test_output.m], "None", <<>>)
    ELSE Finished(Policy([g EXCEPT !.m = test_output.m], env, test_output,
                         check_for_growth, gapfilling_mode,
                         remove_unneeded_reactions),
                  target, run_sensitivity_analysis)

\* run_multi_gapfill with integrate_solutions=True, prefilter=True, one
\* target and one threshold (default_minimum_objective) for all the media
\* returns [g, ret]: ret.kind is "dict", "None" or "raise"
run_multi_gapfill(g, env, media_list, target, default_minimum_objective, check_for_growth, gapfilling_mode, run_sensitivity_analysis, remove_unneeded_reactions) ==
    Adjusted(g, env,
             test_and_adjust_gapfilling_conditions(
                g.m, env, media_list, [i \in 1..Len(media_list) |-> target],
                [i \in 1..Len(media_list) |-> default_minimum_objective],
                TRUE),
             target, check_for_growth, gapfilling_mode,
             run_sensitivity_analysis, remove_unneeded_reactions)

-----------------------------------------------------------------------------
(* Specification of multi-media gapfilling: one call of run_multi_gapfill  *)
(* on a model that has none of the gapfilled reactions, or has R2 in the   *)
(* forward direction only.  Media Mi needs its own reaction Ri, with or    *)
(* without the shared reaction R0.                                         *)

\* run_multi_gapfill is called on the first 1..MaxMedia media
MaxMedia == 3

GFRxns == {"R0", "R1", "R2", "R3"}

GFMedia == <<"M1", "M2", "M3">>

\* the reaction and direction that media number i needs for itself
OwnOf(i, has) ==
    IF i = 1 THEN <<"R1", ">">>
    ELSE IF i = 2 THEN (IF "R2" \in has THEN <<"R2", "<">> ELSE <<"R2", ">">>)
    ELSE <<"R3", ">">>

Shared == <<"R0", ">">>

\* a solution: the pairs of reactions the model has are "reversed", the others "new"
AsSolution(pairs, has) ==
    [new |-> SelectSeq(pairs, LAMBDA c : c[1] \notin has),
     reversed |-> SelectSeq(pairs, LAMBDA c : c[1] \in has)]

\* what the LP of media number i can return
LpChoices(i, has) ==
    {None, Some(AsSolution(<<Shared, OwnOf(i, has)>>, has)),
           Some(AsSolution(<<OwnOf(i, has)>>, has))}

\* the global LP fails, or returns the shared reaction and the own reaction
\* of each of the n media
GlobalChoices(n, has) ==
    {None, Some(AsSolution(<<Shared>> \o [i \in 1..n |-> OwnOf(i, has)], has))}

EssentialChoices(has) ==
    {[md \in MediaNames |->
        IF md = "none" THEN {}
        ELSE LET i == CHOOSE k \in 1..3 : GFMedia[k] = md
             IN  IF i \in withShared THEN {Shared, OwnOf(i, has)}
                 ELSE {OwnOf(i, has)}] : withShared \in SUBSET (1..3)}

\* the objective is 1 whatever is open, or 1 when one of R1, R2 runs forward
GFOracles ==
    {[S \in SUBSET CandSet |-> 1],
     [S \in SUBSET CandSet |->
        IF <<"R1", ">">> \in S \/ <<"R2", ">">> \in S THEN 1 ELSE 0]}

DbPassChoices == {{"M1", "M2", "M3"}, {"M1", "M3"}, {}}

Modes == {"Sequential", "Independent", "Global"}

InitMG ==
    /\ present \in {{}, {"R2"}}
    /\ lb = [r \in GFRxns |-> 0]
    /\ ub = [r \in GFRxns |-> IF r \in present THEN OpenUpper ELSE 0]
    /\ InitUtil
    /\ InitGapfill
    /\ objective = "orig"
    /\ medium = "none"
    /\ oracle \in GFOracles
    /\ infeasible = {}
    /\ essential \in EssentialChoices(present)

\* the state of a run when run_multi_gapfill is entered
RunStart ==
    [m |-> Live, cumulative_solution |-> <<>>,
     cumulative_gapfilling |-> cumulative_gapfilling,
     solution_dictionary |-> <<>>, err |-> ""]

\* the run has ended with outcome o
RunEnded(o) ==
    /\ SetLive(o.g.m)
    /\ cumulative_gapfilling' = o.g.cumulative_gapfilling
    /\ ret' = [kind |-> o.ret.kind, value |-> o.ret.value,
               cumulative_solution |-> o.g.cumulative_solution]

RunMultiGapfillCall(n, gapfilling_mode) ==
    /\ call.name = "none"
    /\ \E dbpass \in DbPassChoices,
          status \in {"infeasible", "optimal"},
          lp \in [{GFMedia[i] : i \in 1..n} -> UNION {LpChoices(i, present) : i \in 1..n}],
          global \in GlobalChoices(n, present),
          check_for_growth \in BOOLEAN,
          run_sensitivity_analysis \in BOOLEAN,
          remove_unneeded_reactions \in BOOLEAN :
       /\ \A i \in 1..n : lp[GFMedia[i]] \in LpChoices(i, present)
       \* the LP that the mode does not solve is not an input of the call
       /\ (gapfilling_mode = "Global" => \A i \in 1..n : lp[GFMedia[i]] = None)
       /\ (gapfilling_mode # "Global" => global = None)
       \* the status is an input of the call only where a media fails the test
       /\ ((\A i \in 1..n : GFMedia[i] \in dbpass) => status = "infeasible")
       /\ RunEnded(run_multi_gapfill(
                        RunStart,
                        [dbpass |-> dbpass, lp |-> lp, global |-> global,
                            status |-> status],
                        SubSeq(GFMedia, 1, n), "bio1", 1, check_for_growth,
                        gapfilling_mode, run_sensitivity_analysis,
                        remove_unneeded_reactions))
       /\ call' = [name |-> "run_multi_gapfill",
                   env |-> [dbpass |-> dbpass, lp |-> lp, global |-> global,
                            status |-> status],
                   media_list |-> SubSeq(GFMedia, 1, n),
                   target |-> "bio1", default_minimum_objective |-> 1,
                   check_for_growth |-> check_for_growth,
                   gapfilling_mode |-> gapfilling_mode,
                   run_sensitivity_analysis |-> run_sensitivity_analysis,
                   remove_unneeded_reactions |-> remove_unneeded_reactions]
       /\ pre' = Some(Live)
    /\ ncalls' = ncalls + 1
    /\ UNCHANGED <<oracle, infeasible, essential, self_model, self_mdlutl,
                   default_cumulative_solution>>

CallRunMultiGapfill ==
    \E n \in 1..MaxMedia, gapfilling_mode \in Modes :
        RunMultiGapfillCall(n, gapfilling_mode)

NextMG == CallRunMultiGapfill

SpecMG == InitMG /\ [][NextMG]_vars

-----------------------------------------------------------------------------
(* Specification of run_multi_gapfill with and without integration of the  *)
(* solutions: one call on the first 1..MaxMediaIS media.  With             *)
(* integrate_solutions=False the run works on a copy of the model, and the *)
(* variables of the live model keep describing the model the MSGapfill     *)
(* object was built on.                                                    *)

MaxMediaIS == 2

\* the model read back from the JSON form of m, behind a new MSModelUtil
BackupModel(m) ==
    [m EXCEPT !.test_objective = None, !.score = None,
              !.breaking_reaction = None, !.attributes = {},
              !.integrated_gapfillings = <<>>]

\* the model of an MSModelUtil object
ModelOf(mdlutl) == IF mdlutl = "mdlutl" THEN "model" ELSE "copy"

\* what self.mdlutl refers to when the call has ended with outcome o: the
\* backup is put back only where the solution dictionary is returned
MdlutlLeft(oldmdlutl, integrate_solutions, o) ==
    IF o.ret.kind = "dict" THEN oldmdlutl
    ELSE IF integrate_solutions THEN oldmdlutl
    ELSE "copy_mdlutl"

\* the run has ended with outcome o
RunEndedOn(integrate_solutions, o) ==
    /\ SetLive(IF integrate_solutions THEN o.g.m
               ELSE [Live EXCEPT !.log = o.g.m.log])
    /\ cumulative_gapfilling' = o.g.cumulative_gapfilling
    /\ ret' = [kind |-> o.ret.kind, value |-> o.ret.value,
               cumulative_solution |-> o.g.cumulative_solution]
    /\ self_mdlutl' = MdlutlLeft(self_mdlutl, integrate_solutions, o)
    /\ self_model' = ModelOf(MdlutlLeft(self_mdlutl, integrate_solutions, o))

RunMultiGapfillOn(n, gapfilling_mode, integrate_solutions) ==
    /\ call.name = "none"
    /\ \E dbpass \in DbPassChoices,
          status \in {"infeasible", "optimal"},
          lp \in [{GFMedia[i] : i \in 1..n} -> UNION {LpChoices(i, present) : i \in 1..n}],
          global \in GlobalChoices(n, present),
          check_for_growth \in BOOLEAN,
          remove_unneeded_reactions \in BOOLEAN :
       /\ \A i \in 1..n : lp[GFMedia[i]] \in LpChoices(i, present)
       /\ (gapfilling_mode = "Global" => \A i \in 1..n : lp[GFMedia[i]] = None)
       /\ (gapfilling_mode # "Global" => global = None)
       \* the status is an input of the call only where a media fails the test
       /\ ((\A i \in 1..n : GFMedia[i] \in dbpass) => status = "infeasible")
       /\ RunEndedOn(integrate_solutions,
                     run_multi_gapfill(
                        [RunStart EXCEPT !.m = IF integrate_solutions THEN Live
                                               ELSE BackupModel(Live)],
                        [dbpass |-> dbpass, lp |-> lp, global |-> global,
                            status |-> status],
                        SubSeq(GFMedia, 1, n), "bio1", 1, check_for_growth,
                        gapfilling_mode, TRUE, remove_unneeded_reactions))
       /\ call' = [name |-> "run_multi_gapfill",
                   env |-> [dbpass |-> dbpass, lp |-> lp, global |-> global,
                            status |-> status],
                   media_list |-> SubSeq(GFMedia, 1, n),
                   target |-> "bio1", default_minimum_objective |-> 1,
                   check_for_growth |-> check_for_growth,
                   gapfilling_mode |-> gapfilling_mode,
                   run_sensitivity_analysis |-> TRUE,
                   integrate_solutions |-> integrate_solutions,
                   remove_unneeded_reactions |-> remove_unneeded_reactions]
       /\ pre' = Some(Live)
    /\ ncalls' = ncalls + 1
    /\ UNCHANGED <<oracle, infeasible, essential, default_cumulative_solution>>

CallRunMultiGapfillOn ==
    \E n \in 1..MaxMediaIS, gapfilling_mode \in Modes,
       integrate_solutions \in BOOLEAN :
        RunMultiGapfillOn(n, gapfilling_mode, integrate_solutions)

NextIS == CallRunMultiGapfillOn

SpecIS == InitMG /\ [][NextIS]_vars

-----------------------------------------------------------------------------
(* Specification of integrate_gapfill_solution called without              *)
(* cumulative_solution, as gapfill does: MaxIntegrations calls in a row,   *)
(* call number i with what run_gapfilling returned for media number i, a   *)
(* solution or None.  The default value of the parameter is one list       *)
(* object, made when the function is defined.                              *)

MaxIntegrations == 2

\* what run_gapfilling can return for media number i: None, or a solution
\* with the minimum objective of the MSGapfill object.  The minimum objective
\* is used in one place, objective < threshold in test_solution (line 1237),
\* and the objective values of the model are integers, so the threshold 1
\* decides as the constructor's default 0.01 does
SolutionsOf(i, has) ==
    {[new |-> s[1].new, reversed |-> s[1].reversed, media |-> GFMedia[i],
      target |-> "bio1", minobjective |-> DefaultMinimumObjective] :
        s \in LpChoices(i, has) \ {None}} \cup {None}

\* the call has returned r: the entry is returned, the default list keeps
\* what the call appended to it
IntegrationEnded(r) ==
    /\ SetLive(r.m)
    /\ cumulative_gapfilling' = r.cumulative_gapfilling
    /\ default_cumulative_solution' = r.cumulative_solution
    /\ ret' = IF r.err = "" THEN r.entry ELSE RaisedBy(r.err)

CallIntegrateGapfillSolution ==
    /\ ncalls < MaxIntegrations
    /\ \E solution \in SolutionsOf(ncalls + 1, present),
          remove_unneeded_reactions \in BOOLEAN,
          check_for_growth \in BOOLEAN,
          gapfilling_mode \in {"Sequential", "Independent"} :
       /\ IntegrationEnded(
                integrate_gapfill_solution(
                    [m |-> Live,
                     cumulative_solution |-> default_cumulative_solution,
                     cumulative_gapfilling |-> cumulative_gapfilling,
                     solution_dictionary |-> <<>>, err |-> ""],
                    solution, remove_unneeded_reactions, check_for_growth,
                    gapfilling_mode))
       /\ call' = [name |-> "integrate_gapfill_solution",
                   solution |-> solution,
                   remove_unneeded_reactions |-> remove_unneeded_reactions,
                   check_for_growth |-> check_for_growth,
                   gapfilling_mode |-> gapfilling_mode]
       /\ pre' = Some(Live)
    /\ ncalls' = ncalls + 1
    /\ UNCHANGED <<oracle, infeasible, essential, self_model, self_mdlutl>>

NextIG == CallIntegrateGapfillSolution

SpecIG == InitMG /\ [][NextIG]_vars

-----------------------------------------------------------------------------
(* Properties of the integration of gapfilling solutions (checked under    *)
(* SpecMG).  The log holds one <<"integrate", ev>> for every call of       *)
(* integrate_gapfill_solution, in order.                                   *)

IsMG == call.name = "run_multi_gapfill"

\* the records of the calls of integrate_gapfill_solution made by the run
Integrations == SelectSeq(log, LAMBDA e : e[1] = "integrate")

\* the solution ev.solution has reaction r in direction d
Gapfilled(ev, r, d) ==
    \E k \in 1..Len(ev.solution) :
        ev.solution[k][1] = r /\ ev.solution[k][2] = d

\* C12: the loop that integrates a solution opens only the gapfilled
\* directions: a reaction the model did not have is in the model afterwards
\* with the upper bound 100 if it was gapfilled forward and 0 otherwise, the
\* lower bound -100 if it was gapfilled backward and 0 otherwise; of a
\* reaction the model had, the bound of a gapfilled direction is 100 or -100
\* and the other bound is what it was; nothing else changes
C12_OnlyGapfilledDirectionOpened ==
    IsMG =>
        \A n \in 1..Len(Integrations) :
            LET ev == Integrations[n][2]
                had == ev.before_loop.present
            IN  \A r \in GFRxns :
                    IF \E d \in Dirs : Gapfilled(ev, r, d)
                    THEN /\ r \in ev.opened.present
                         /\ ev.opened.ub[r] =
                                IF Gapfilled(ev, r, ">") THEN OpenUpper
                                ELSE IF r \in had THEN ev.before_loop.ub[r]
                                ELSE 0
                         /\ ev.opened.lb[r] =
                                IF Gapfilled(ev, r, "<") THEN OpenLower
                                ELSE IF r \in had THEN ev.before_loop.lb[r]
                                ELSE 0
                    ELSE /\ (r \in ev.opened.present) = (r \in had)
                         /\ ev.opened.ub[r] = ev.before_loop.ub[r]
                         /\ ev.opened.lb[r] = ev.before_loop.lb[r]

\* one integration adds R0 forward, lower bound 0, and opens the backward
\* direction of R2, which the model had, leaving its upper bound at 100
C12_Witness ==
    /\ IsMG
    /\ \E n \in 1..Len(Integrations) :
          LET ev == Integrations[n][2]
          IN  /\ "R0" \notin ev.before_loop.present
              /\ "R2" \in ev.before_loop.present
              /\ ev.before_loop.lb["R2"] = 0
              /\ Gapfilled(ev, "R0", ">")
              /\ Gapfilled(ev, "R2", "<")
              /\ ev.opened.ub["R0"] = OpenUpper
              /\ ev.opened.lb["R0"] = 0
              /\ ev.opened.lb["R2"] = OpenLower
              /\ ev.opened.ub["R2"] = OpenUpper


\* the entry that integration number n put into integrated_gapfillings
EntryOf(n) == integrated_gapfillings[n]

\* C13 (the claim): from the second integration of a run on, the Need Tester
\* is run on the cumulative solution of the media integrated so far, and a
\* cumulative reaction it finds unneeded is discarded: it is no longer in the
\* cumulative solution and no longer open in the model
C13_EarlierUnneededDiscarded ==
    IsMG =>
        \A n \in 2..Len(Integrations) :
            LET ev == Integrations[n][2]
            IN  /\ Pairs(ev.cumulative_before) \subseteq Pairs(ev.tested)
                /\ \A p \in Pairs(ev.cumulative_before) \cap Pairs(ev.unneeded) :
                      /\ p \notin Pairs(ev.cumulative_after)
                      /\ ~IsOpen(ev.left, p)

\* C13 amended: in Sequential and Global mode the Need Tester is run on the
\* cumulative solution followed by the reactions of the media's solution
\* that are not in it; every cumulative reaction, found unneeded or not,
\* stays in the cumulative solution and open in the model, and one found
\* unneeded is left out of the entry of the media only.  When a Sequential
\* run returns, every reaction of the cumulative solution is open.
C13_EarlierUnneededKept ==
    (IsMG /\ call.gapfilling_mode # "Independent") =>
        /\ \A n \in 1..Len(Integrations) :
              LET ev == Integrations[n][2]
              IN  /\ ev.tested = ev.cumulative_before \o
                        SelectSeq(ev.solution,
                                  LAMBDA x : <<x[1], x[2]>> \notin
                                                Pairs(ev.cumulative_before))
                  /\ \A p \in Pairs(ev.cumulative_before) :
                        /\ p \in Pairs(ev.cumulative_after)
                        /\ IsOpen(ev.left, p)
                        /\ p \in Pairs(ev.unneeded) =>
                              p \notin EntryPairs(EntryOf(n))
        /\ (call.gapfilling_mode = "Sequential" /\ ret.kind = "dict") =>
              \A p \in Pairs(ret.cumulative_solution) : IsOpen(Live, p)

\* a Sequential run whose second integration finds a reaction accepted for
\* the first media unneeded, and which returns with that reaction open
C13_Witness ==
    /\ IsMG
    /\ call.gapfilling_mode = "Sequential"
    /\ ret.kind = "dict"
    /\ Len(Integrations) >= 2
    /\ \E p \in Pairs(Integrations[2][2].cumulative_before)
                    \cap Pairs(Integrations[2][2].unneeded) :
          /\ p \in EntryPairs(EntryOf(1))
          /\ p \notin EntryPairs(EntryOf(2))
          /\ p \in Pairs(ret.cumulative_solution)
          /\ IsOpen(Live, p)


\* C14 (the claim): when an Independent run returns, every reaction of the
\* cumulative solution that is still in the model has its gapfilled
\* direction open again
C14_SuppressionUndone ==
    (IsMG /\ call.gapfilling_mode = "Independent" /\ ret.kind = "dict") =>
        \A p \in Pairs(ret.cumulative_solution) :
            p[1] \in present => IsOpen(Live, p)


\* the scenario of C15: the model has none of R0..R3, the three media pass
\* the database test, the solution of Mi is {R0, Ri} and the objective on Mi
\* is 1 when R0 and Ri are open and 0 otherwise
C15_Scenario ==
    /\ IsMG
    /\ call.media_list = GFMedia
    /\ call.env.dbpass = {"M1", "M2", "M3"}
    /\ pre[1].present = {}
    /\ oracle = [S \in SUBSET CandSet |-> 1]
    /\ \A i \in 1..3 :
          /\ call.env.lp[GFMedia[i]] = Some(AsSolution(<<Shared, OwnOf(i, {})>>, {}))
          /\ essential[GFMedia[i]] = {Shared, OwnOf(i, {})}

\* the directions of R0..R3 that are open in the live model
OpenPairs == {p \in GFRxns \X Dirs : IsOpen(Live, p)}

\* C15 (the claim): in the scenario, a Sequential run and an Independent run
\* both return with exactly R0, R1, R2 and R3 in the cumulative solution and
\* open in the live model
C15_UnionRetained ==
    (C15_Scenario /\ call.gapfilling_mode \in {"Sequential", "Independent"}) =>
        /\ ret.kind = "dict"
        /\ Pairs(ret.cumulative_solution) = {<<r, ">">> : r \in GFRxns}
        /\ OpenPairs = {<<r, ">">> : r \in GFRxns}


\* the gapfilling solution of the call, whichever LP the mode solved
SolutionOfCall ==
    IF call.gapfilling_mode = "Global" THEN call.env.global
    ELSE call.env.lp["M1"]

\* the outcome of the call had it been made in the given mode, on the same
\* model with the same solution returned by the LP of that mode
RunAs(gapfilling_mode) ==
    run_multi_gapfill(
        [m |-> pre[1], cumulative_solution |-> <<>>,
         cumulative_gapfilling |-> <<>>, solution_dictionary |-> <<>>,
         err |-> ""],
        [dbpass |-> call.env.dbpass,
         lp |-> [md \in {"M1"} |-> SolutionOfCall], global |-> SolutionOfCall,
         status |-> call.env.status],
        call.media_list, call.target, call.default_minimum_objective,
        call.check_for_growth, gapfilling_mode, call.run_sensitivity_analysis,
        call.remove_unneeded_reactions)

\* what a run retains: the cumulative solution, the open directions of the
\* model and the reactions of each media's entry
Retained(o) ==
    [cumulative |-> Pairs(o.g.cumulative_solution),
     open |-> {p \in GFRxns \X Dirs : IsOpen(o.g.m, p)},
     entries |-> [k \in 1..Len(o.g.solution_dictionary) |->
                    <<o.g.solution_dictionary[k][1],
                      EntryPairs(o.g.solution_dictionary[k][2])>>]]

SameRetained(s, i, g) ==
    /\ s.ret.kind = "dict"
    /\ i.ret.kind = "dict"
    /\ g.ret.kind = "dict"
    /\ Retained(i) = Retained(s)
    /\ Retained(g) = Retained(s)

\* C16 (the claim): with one media that passes the database test and the same
\* gapfilling solution, run_multi_gapfill returns normally in the three modes
\* and retains the same reactions
C16_SingleMediaEquivalence ==
    (/\ IsMG
     /\ Len(call.media_list) = 1
     /\ "M1" \in call.env.dbpass
     /\ SolutionOfCall # None) =>
        SameRetained(RunAs("Sequential"), RunAs("Independent"), RunAs("Global"))


\* no media of the call passes the database test
NoMediaPasses == \A k \in 1..Len(call.media_list) :
                    call.media_list[k] \notin call.env.dbpass

\* C17 (the claim): when no media passes the database test or the LP is not
\* optimal, run_gapfilling, run_global_gapfilling and run_multi_gapfill
\* return None; in particular a Global run returns None when
\* run_global_gapfilling returns None
C17_NoSolutionReturnsNone ==
    IsMG =>
        /\ \A k \in 1..Len(call.media_list) :
              (\/ call.media_list[k] \notin call.env.dbpass
               \/ call.env.lp[call.media_list[k]] = None) =>
                    run_gapfilling(pre[1], call.env, call.media_list[k],
                                   call.target,
                                   call.default_minimum_objective).out = None
        /\ (NoMediaPasses \/ call.env.global = None) =>
              run_global_gapfilling(
                pre[1], call.env, call.media_list,
                [k \in 1..Len(call.media_list) |-> call.target],
                [k \in 1..Len(call.media_list) |->
                    call.default_minimum_objective], FALSE).out = None
        /\ (NoMediaPasses => ret.kind = "None")
        /\ ((call.gapfilling_mode = "Global" /\ call.env.global = None) =>
              ret.kind = "None")


\* the media of the call for which run_gapfilling returns a solution, from
\* media k of the list, in the order of the list
RECURSIVE SolvedMedia(_)
SolvedMedia(k) ==
    IF k > Len(call.media_list) THEN <<>>
    ELSE IF run_gapfilling(pre[1], call.env, call.media_list[k], call.target,
                           call.default_minimum_objective).out = None
    THEN SolvedMedia(k + 1)
    ELSE <<call.media_list[k]>> \o SolvedMedia(k + 1)

\* the media of the call that pass the database test, in the order of the list
PassingMedia == SelectSeq(call.media_list, LAMBDA md : md \in call.env.dbpass)

\* the media run_gapfilling was called for, in the order of the calls
GapfillRuns == SelectSeq(log, LAMBDA e : e[1] = "run_gapfilling")

\* the keys of the dictionary the call returned, in the order of insertion
ReturnedKeys == [k \in 1..Len(ret.value) |-> ret.value[k][1]]

\* C18: a Sequential or Independent run returns a dictionary whatever media
\* have no solution; run_gapfilling is called once for every media that passes
\* the database test, in order; the solutions found are integrated, in order;
\* the keys of the dictionary are exactly the media with a solution
C18_PartialFailureNonFatal ==
    (IsMG /\ call.gapfilling_mode # "Global" /\ PassingMedia # <<>>) =>
        /\ ret.kind = "dict"
        /\ [k \in 1..Len(GapfillRuns) |-> GapfillRuns[k][2]] = PassingMedia
        /\ [k \in 1..Len(Integrations) |-> Integrations[k][2].media]
              = SolvedMedia(1)
        /\ ReturnedKeys = SolvedMedia(1)

\* a run where an earlier media has no solution and a later media has one
C18_Witness ==
    /\ IsMG /\ call.gapfilling_mode # "Global"
    /\ Len(call.media_list) = 3
    /\ call.env.dbpass = {"M1", "M2", "M3"}
    /\ call.env.lp["M1"] # None
    /\ call.env.lp["M2"] = None
    /\ call.env.lp["M3"] # None
    /\ ReturnedKeys = <<"M1", "M3">>

-----------------------------------------------------------------------------
(* Properties of the linear search and of the filter cache of              *)
(* reaction_expansion_test (checked under Spec)                            *)

IsLinearRET == IsRET /\ ~call.binary_search

\* C21 (the claim): with binary_search=False the candidates are searched by
\* linear_expansion_test, which returns a list for every candidate list: the
\* call ends with a list, or with None when check_if_solution_exists fails,
\* and never with an exception
C21_LinearSearchReturnsList ==
    IsLinearRET => ret.kind \in {"list", "None"}

\* the item is in the filter cache c under the key of the condition
RecordedFor(c, condition, item) ==
    \E a \in c : a[1] = AttKey(condition, item)

\* every reaction of the returned list is in the cache under the key of a
\* condition of the call
ReturnedAreRecorded ==
    \A item \in Range(ret.value) :
        \E i \in 1..Len(call.condition_list) :
            RecordedFor(attributes, call.condition_list[i], item)

\* no pass of the run that ended last searched a list with a reaction that was
\* in the cache, under the key of the condition of the pass, when the run began
RecordedAreSkipped ==
    \A k \in (Len(pre[1].log) + 1)..Len(log) :
        log[k][1] = "pass" =>
            \A item \in Range(log[k][2]) :
                ~RecordedFor(pre[1].attributes, log[k][3], item)

\* C22 (the claim): the reactions reaction_expansion_test returns as filtered
\* are recorded in the attributes cache under (media, objective, threshold),
\* and a repeated run for the same conditions does not search the reactions
\* recorded as filtered for the condition
C22_FilterCacheMemoized ==
    (IsRET /\ ret.kind = "list") =>
        /\ ReturnedAreRecorded
        /\ ncalls > 1 => RecordedAreSkipped

-----------------------------------------------------------------------------
(* Order of the steps of test_solution (checked under SpecTS) *)

\* position of the last <<"set", _>> of the log before position k, 0 if none
RECURSIVE LastSetBefore(_)
LastSetBefore(k) ==
    IF k <= 1 THEN 0
    ELSE IF log[k - 1][1] = "set" THEN k - 1 ELSE LastSetBefore(k - 1)

\* the solve at position k of the log comes right after the knockout of its
\* item for its triple, which comes after the last setting of medium and
\* objective, and that setting was for the same triple
KnockoutBetween(k) ==
    /\ k > 2
    /\ log[k - 1] = <<"knockout", log[k][2], log[k][3]>>
    /\ LastSetBefore(k) > 0
    /\ LastSetBefore(k) < k - 1
    /\ log[LastSetBefore(k)][2] = log[k][3]

\* the solve at position k was made on the medium and objective of its triple
\* with the bound of the direction of its item at zero
SolvedKnockedOut(k) ==
    /\ log[k][4].medium = call.medias[log[k][3]]
    /\ log[k][4].objective = call.targets[log[k][3]]
    /\ log[k][4].bound = 0

\* C23: in a call of test_solution that returned there is a solve for every
\* solution reaction and every (target, media, threshold) triple; in every
\* call the reaction is knocked out after medium and objective of the triple
\* of a solve were set and before that solve
C23_KnockoutAfterConditionBeforeSolve ==
    IsTS =>
        /\ TSReturned =>
              \A j \in 1..Len(call.solution), i \in 1..Len(call.targets) :
                \E k \in 1..Len(log) :
                  /\ log[k][1] = "solve"
                  /\ log[k][2] = call.solution[j]
                  /\ log[k][3] = i
        /\ \A k \in 1..Len(log) :
              log[k][1] = "solve" => (KnockoutBetween(k) /\ SolvedKnockedOut(k))

\* a call with two triples and three solution reactions: six solves
C23_Witness ==
    /\ IsTS
    /\ Len(call.targets) = 2
    /\ Len(call.solution) = 3
    /\ Len(SelectSeq(log, LAMBDA e : e[1] = "solve")) = 6
    /\ \E k \in 1..Len(log) :
          /\ log[k][1] = "solve"
          /\ log[k][3] = 2
          /\ KnockoutBetween(k)

-----------------------------------------------------------------------------
(* The cumulative solution of a run of run_multi_gapfill (checked under    *)
(* SpecMG)                                                                 *)

\* no two entries of the list have the same reaction and the same direction
NoDuplicate(items) ==
    \A a, b \in 1..Len(items) :
        (items[a][1] = items[b][1] /\ items[a][2] = items[b][2]) => a = b

\* C24: in every gapfilling mode the cumulative solution of a run has, before
\* and after every call of integrate_gapfill_solution and at the end of the
\* run, at most one entry for a reaction and a direction
C24_CumulativeSolutionNoDuplicate ==
    IsMG =>
        /\ \A n \in 1..Len(Integrations) :
              /\ NoDuplicate(Integrations[n][2].cumulative_before)
              /\ NoDuplicate(Integrations[n][2].cumulative_after)
        /\ NoDuplicate(ret.cumulative_solution)

\* a later solution of the run has a reaction that is in the cumulative
\* solution already, in the same direction, and one that is not
C24_Witness ==
    /\ IsMG
    /\ \E n \in 2..Len(Integrations) :
          LET ev == Integrations[n][2]
          IN  /\ \E k \in 1..Len(ev.solution) :
                    find_item_in_solution(ev.cumulative_before,
                                          ev.solution[k], FALSE)
              /\ Len(ev.cumulative_after) > Len(ev.cumulative_before)
              /\ Len(ev.cumulative_before) > 0

-----------------------------------------------------------------------------
(* The live model after reaction_expansion_test (checked under Spec and    *)
(* SpecRR)                                                                 *)

\* C25: when reaction_expansion_test returns a list, the bound of the
\* filtered direction of every reaction of the list is zero in the live
\* model, whichever pass or condition filtered it
C25_ReturnedReactionsAreZeroed ==
    (IsRET /\ ret.kind = "list") =>
        \A k \in 1..Len(ret.value) : DirBound(Live, ret.value[k]) = 0

\* C26: when reaction_expansion_test with binary search returns a list for one
\* condition, that condition passes on the live model as the call left it
C26_LeftModelPassesCondition ==
    (IsBinaryRET /\ ret.kind = "list" /\ Len(call.condition_list) = 1
        /\ ~call.condition_list[1].change) =>
        test_single_condition(Live, call.condition_list[1], TRUE).ok

\* the list of the pass that starts after the breaking item at position a
\* is the list searched before without that item
RemovedExactly(a) ==
    (a + 1 < Len(log) /\ log[a + 2][1] = "pass") =>
        /\ log[a][2] \notin Range(log[a + 2][2])
        /\ \A item \in Range(ListBefore(a)) :
              item # log[a][2] => item \in Range(log[a + 2][2])

\* C27: the entry removed from the searched list after the base case of
\* binary_expansion_test rejected the entry (r, d) as breaking is (r, d); an
\* entry of r in the other direction stays in the list and is searched
C27_BreakingEntryRemovedExactly ==
    IsBinaryRET =>
        \A a \in 1..Len(log) : log[a][1] = "breaking" => RemovedExactly(a)

\* the passes of the outer loop for one condition are on shorter and shorter
\* lists
PassesShorten ==
    \A a, b \in 1..Len(log) :
        (a < b /\ log[a][1] = "pass" /\ log[b][1] = "pass"
            /\ log[a][3] = log[b][3]) => Len(log[b][2]) < Len(log[a][2])

\* C30: reaction_expansion_test with binary search ends on every candidate
\* list, the empty one included: the recursion of binary_expansion_test
\* never runs out of stack, and every restart of the outer loop is on a
\* list with fewer entries
C30_BinarySearchTerminates ==
    IsBinaryRET => (ret.kind # "raise" /\ PassesShorten)

-----------------------------------------------------------------------------
(* The objects the MSGapfill object refers to after run_multi_gapfill      *)
(* (checked under SpecIS)                                                  *)

\* C29: whenever run_multi_gapfill returns, a dictionary or None, self.model
\* and self.mdlutl are the objects they were before the call, with and
\* without integration of the solutions
C29_ModelReferencesRestored ==
    (IsMG /\ ret.kind \in {"dict", "None"}) =>
        (self_model = "model" /\ self_mdlutl = "mdlutl")

-----------------------------------------------------------------------------
(* integrate_gapfill_solution without cumulative_solution (checked under   *)
(* SpecIG)                                                                 *)

IsIG == call.name = "integrate_gapfill_solution"

\* the call made last, made with an empty cumulative solution on the model
\* as it was
WithEmptyCumulative ==
    integrate_gapfill_solution(
        [m |-> pre[1], cumulative_solution |-> <<>>,
         cumulative_gapfilling |-> <<>>, solution_dictionary |-> <<>>,
         err |-> ""],
        call.solution, call.remove_unneeded_reactions, call.check_for_growth,
        call.gapfilling_mode)

SameAsWithEmpty(r) ==
    /\ ret = IF r.err = "" THEN r.entry ELSE RaisedBy(r.err)
    /\ Snapshot(Live) = Snapshot(r.m)
    /\ integrated_gapfillings = r.m.integrated_gapfillings

\* C28: a call of integrate_gapfill_solution without cumulative_solution
\* returns what it returns with an empty cumulative solution, and changes the
\* live model in the same way, whatever calls were made before
C28_OmittedCumulativeIsEmpty ==
    IsIG => SameAsWithEmpty(WithEmptyCumulative)

====
